---- MODULE Spec2Model ----
(***************************************************************************)
(* A model of the candidate-search browsing agent:                         *)
(*   - the page-context compressor (extractPageContext),                   *)
(*   - the BrowserController with its element map and retry counters,      *)
(*   - the AgentCoordinator loop and the ProfileScannerSubAgent loop.      *)
(* Strings whose content matters (texts, hrefs, refs, retry keys, human    *)
(* answers) are sequences of characters or tokens, so that concatenation,  *)
(* slicing, trimming and case folding are computed, not assumed.           *)
(***************************************************************************)
EXTENDS Integers, Sequences, FiniteSets, TLC

VARIABLES
    browserReady,   \* BrowserController.page # null (initialize() completed)
    page,           \* the document currently shown by the browser
    elementMap,     \* BrowserController.elementMap : ref -> selector
    retryCount,     \* BrowserController.retryCount : action key -> count
    lastCall,       \* the controller operation that returned last, with its result
    failStreak,     \* history: consecutive failed calls per action key
    snapRefs,       \* history: refs returned by the latest successful snapshot
    prevSnapRefs,   \* history: refs returned by the snapshot before that one
    snapBy,         \* history: the loop and the task that took the latest successful snapshot
    agent,          \* index.ts `agent`: "null" or "constructed"
    pc,             \* where main stands: "prompt", "loop", "step", "tools", "scan", "exited"
    tasks,          \* history: number of tasks entered at the prompt
    iteration,      \* runTask's `iteration`
    taskComplete,   \* AgentCoordinator.taskComplete
    taskResult,     \* AgentCoordinator.taskResult
    messages,       \* the entries appended to this.messages in the current iteration
    calls,          \* the proposal being executed: its size n and the invocations done k
    lastTool,       \* the tool-result entry appended last (either loop) and its invocation
    taskReturn,     \* history: what runTask returned for the task, Null while it runs
    completions,    \* history: task_complete invocations executed in the task
    asked,          \* history: requests made to the model, where they are counted
    invoked,        \* history: tool invocations executed, where they are counted
    subPc,          \* where scanProfile stands: "idle", "loop", "step", "tools", "done"
    subIteration,   \* scanProfile's `iteration`
    scanComplete,   \* ProfileScannerSubAgent.scanComplete
    scanResult,     \* ProfileScannerSubAgent.scanResult
    subMessages,    \* the entries appended to scanProfile's `messages` in the current iteration
    subCalls,       \* as `calls`, for the sub-agent's proposal
    scanUrl,        \* scanProfile's `profileUrl`
    collab,         \* the behaviours of the model and the browser that are explored
    proc            \* the process: "running", "closing" (shutdown awaits close()), "exited"

ctlVars == <<browserReady, page, elementMap, retryCount, lastCall, failStreak,
             snapRefs, prevSnapRefs, snapBy>>

taskVars == <<agent, pc, tasks, iteration, taskComplete, taskResult, messages,
              calls, lastTool, taskReturn, completions, asked, invoked, collab,
              proc>>

scanVars == <<subPc, subIteration, scanComplete, scanResult, subMessages,
              subCalls, scanUrl>>

vars == <<ctlVars, taskVars, scanVars>>

----------------------------------------------------------------------------
(* Bounds of the exploration *)

MaxNodes == 156      \* largest generated document (nodes)
MaxStreak == 4       \* longest run of consecutive failed calls of one key
MaxOpenKeys == 1     \* action keys in a failure streak at the same time
MaxRequests == 2     \* requests to the model followed in one run, both loops
MaxInvocations == 2  \* tool invocations followed in one run, both loops
MaxCalls == 1        \* invocations per proposal when the whole budget is followed

(* Program constants *)

MAX_ELEMENTS == 150  \* .slice(0, 150)
RETRY_CEILING == 3   \* if (count >= 3)
TEXT_LIMIT == 100    \* getText: text.slice(0, 100)
MAX_ITERATIONS == 500            \* const MAX_ITERATIONS
SUB_AGENT_MAX_ITERATIONS == 15   \* const SUB_AGENT_MAX_ITERATIONS
HREF_LIMIT == 100                \* el.href.slice(0, 100)
LABEL_LIMIT == 80    \* text.slice(0, 80)

----------------------------------------------------------------------------
(* String helpers *)

Min(a, b) == IF a < b THEN a ELSE b

\* String.prototype.slice(0, n)
Slice(s, n) == SubSeq(s, 1, Min(Len(s), n))

\* String.prototype.startsWith(prefix)
StartsWith(s, prefix) ==
    /\ Len(s) >= Len(prefix)
    /\ SubSeq(s, 1, Len(prefix)) = prefix

\* a || b on strings: the empty string is falsy
OrElse(a, b) == IF a # <<>> THEN a ELSE b

\* TRUE; makes the evaluation of x happen here, before what follows
Evaluated(x) == x = x

DigitChar == <<"0", "1", "2", "3", "4", "5", "6", "7", "8", "9">>

\* template literal `${n}` of a non-negative integer
RECURSIVE Decimal(_)
Decimal(n) ==
    IF n < 10 THEN <<DigitChar[n + 1]>>
    ELSE Decimal(n \div 10) \o <<DigitChar[(n % 10) + 1]>>

----------------------------------------------------------------------------
(* The live document.  A node carries the attributes the extractor reads;  *)
(* `text` is its textContent after trim and whitespace collapsing, `path`  *)
(* the structural selector the path builder derives for it.  An absent     *)
(* attribute and an empty one are both <<>>: the extractor reads every     *)
(* attribute through `|| ''` or a truthiness test.                         *)

BaseNode ==
    [tag |-> "div", href |-> <<>>, role |-> "", itype |-> "", text |-> <<>>,
     aria |-> <<>>, value |-> <<>>, placeholder |-> <<>>, name |-> <<>>,
     id |-> <<>>, testid |-> <<>>, path |-> <<>>, visible |-> TRUE]

JAVASCRIPT == <<"j", "a", "v", "a", "s", "c", "r", "i", "p", "t", ":">>

\* the characters of the strings the extractor uses as literals
Chars(str) ==
    CASE str = "Button"   -> <<"B", "u", "t", "t", "o", "n">>
      [] str = "Input"    -> <<"I", "n", "p", "u", "t">>
      [] str = "Select"   -> <<"S", "e", "l", "e", "c", "t">>
      [] str = "text"     -> <<"t", "e", "x", "t">>
      [] str = "textarea" -> <<"t", "e", "x", "t", "a", "r", "e", "a">>
      [] str = "email"    -> <<"e", "m", "a", "i", "l">>
      [] str = "submit"   -> <<"s", "u", "b", "m", "i", "t">>
      [] str = "button"   -> <<"b", "u", "t", "t", "o", "n">>
      [] str = "hidden"   -> <<"h", "i", "d", "d", "e", "n">>
      [] OTHER            -> <<>>

getSelector(el) ==
    IF el.id # <<>> THEN <<"#">> \o el.id
    ELSE IF el.testid # <<>> THEN <<"[data-testid=">> \o el.testid \o <<"]">>
    ELSE IF el.aria # <<>> THEN <<"[aria-label=">> \o el.aria \o <<"]">>
    ELSE el.path

getText(el) == Slice(el.text, TEXT_LIMIT)

isVisible(el) == el.visible

\* HTMLInputElement.type: the type attribute, "text" when absent; "textarea"
\* for a textarea
InputTypeProp(el) ==
    IF el.tag = "textarea" THEN Chars("textarea")
    ELSE IF el.itype = "" THEN Chars("text") ELSE Chars(el.itype)

\* document.querySelectorAll('a[href]')
MatchesLink(el) == el.tag = "a" /\ el.href # <<>>

\* 'button, [role="button"], input[type="submit"], input[type="button"]'
MatchesButton(el) ==
    \/ el.tag = "button"
    \/ el.role = "button"
    \/ (el.tag = "input" /\ el.itype \in {"submit", "button"})

\* 'input:not([type="hidden"]):not([type="submit"]):not([type="button"]), textarea'
MatchesInput(el) ==
    \/ (el.tag = "input" /\ el.itype \notin {"hidden", "submit", "button"})
    \/ el.tag = "textarea"

\* 'select'
MatchesSelect(el) == el.tag = "select"

LinkText(el) == OrElse(OrElse(getText(el), el.aria), el.href)

KeepLink(el) ==
    /\ MatchesLink(el)
    /\ isVisible(el)
    /\ LinkText(el) # <<>>
    /\ el.href # <<>>
    /\ ~StartsWith(el.href, JAVASCRIPT)

LinkElement(el) ==
    [type |-> "link", text |-> Slice(LinkText(el), LABEL_LIMIT),
     selector |-> getSelector(el), href |-> el.href]

ButtonElement(el) ==
    [type |-> "button",
     text |-> Slice(OrElse(OrElse(OrElse(getText(el), el.aria), el.value),
                           Chars("Button")), LABEL_LIMIT),
     selector |-> getSelector(el), href |-> <<>>]

InputElement(el) ==
    [type |-> IF el.tag = "textarea" THEN "textarea" ELSE "input",
     text |-> Slice(OrElse(OrElse(OrElse(OrElse(el.placeholder, el.aria), el.name),
                                  InputTypeProp(el)), Chars("Input")), LABEL_LIMIT),
     selector |-> getSelector(el), href |-> <<>>]

SelectElement(el) ==
    [type |-> "select",
     text |-> Slice(OrElse(OrElse(el.aria, el.name), Chars("Select")), LABEL_LIMIT),
     selector |-> getSelector(el), href |-> <<>>]

MapSeq(s, F(_)) == [i \in 1..Len(s) |-> F(s[i])]

\* the four passes of page.evaluate, in order; each in document order
RawElements(dom) ==
    MapSeq(SelectSeq(dom, KeepLink), LinkElement)
    \o MapSeq(SelectSeq(dom, LAMBDA el : MatchesButton(el) /\ isVisible(el)), ButtonElement)
    \o MapSeq(SelectSeq(dom, LAMBDA el : MatchesInput(el) /\ isVisible(el)), InputElement)
    \o MapSeq(SelectSeq(dom, LAMBDA el : MatchesSelect(el) /\ isVisible(el)), SelectElement)

\* `${el.type}:${el.text}:${el.href || ''}`
ElementKey(el) == <<el.type, ":">> \o el.text \o <<":">> \o el.href

\* one step of the filter callback on element i; acc = [kept, seen]
DedupStep(els, i, acc) ==
    LET key == ElementKey(els[i]) IN
    IF key \in acc.seen THEN acc
    ELSE [kept |-> Append(acc.kept, els[i]), seen |-> acc.seen \cup {key}]

\* the callback applied to elements lo..hi in order
RECURSIVE DedupRange(_, _, _, _)
DedupRange(els, lo, hi, acc) ==
    IF Evaluated(acc) /\ lo > hi THEN acc
    ELSE IF lo = hi THEN DedupStep(els, lo, acc)
    ELSE LET mid == (lo + hi) \div 2 IN
         DedupRange(els, mid + 1, hi, DedupRange(els, lo, mid, acc))

DedupNone(els) == els

\* elements.filter(...) with the `seen` set
Dedup(els) == DedupRange(els, 1, Len(els), [kept |-> <<>>, seen |-> {}]).kept

RefPrefixMerged(type) ==
    IF type = "link" THEN "link" ELSE IF type = "button" THEN "btn" ELSE "input"

RefPrefix(type) ==
    IF type = "link" THEN "link" ELSE IF type = "button" THEN "btn" ELSE type

ZeroCounters ==
    [t \in {"link", "button", "input", "textarea", "select"} |-> 0]

\* one step of the map callback on element i; acc = [out, counters]
AssignStep(els, i, acc) ==
    LET t == els[i].type
        c == acc.counters[t] + 1
    IN [out |-> Append(acc.out,
                       [ref |-> <<RefPrefix(t), "_">> \o Decimal(c), type |-> t,
                        text |-> els[i].text, selector |-> els[i].selector,
                        href |-> els[i].href]),
        counters |-> [acc.counters EXCEPT ![t] = c]]

RECURSIVE AssignRange(_, _, _, _)
AssignRange(els, lo, hi, acc) ==
    IF Evaluated(acc) /\ lo > hi THEN acc
    ELSE IF lo = hi THEN AssignStep(els, lo, acc)
    ELSE LET mid == (lo + hi) \div 2 IN
         AssignRange(els, mid + 1, hi, AssignRange(els, lo, mid, acc))

\* the .map(...) that generates the ref ids
AssignRefs(els) ==
    AssignRange(els, 1, Len(els), [out |-> <<>>, counters |-> ZeroCounters]).out

\* refs generated before the filter and the slice
extractPageContextRefsFirst(dom) ==
    Slice(Dedup(AssignRefs(RawElements(dom))), MAX_ELEMENTS)

extractPageContext(dom) == AssignRefs(Slice(Dedup(RawElements(dom)), MAX_ELEMENTS))

----------------------------------------------------------------------------
(* The documents the browser can show.  A page is named by a small record; *)
(* DomOf gives its nodes in document order.                                *)

H_ELLO == <<"H", "e", "l", "l", "o">>

Doc(n) ==
    CASE n = 1 ->   \* one visible anchor and one hidden button
            << [BaseNode EXCEPT !.tag = "a", !.href = <<"/", "x">>, !.text = H_ELLO,
                                !.path = <<"a", "1">>],
               [BaseNode EXCEPT !.tag = "button", !.text = <<"H", "i", "d">>,
                                !.path = <<"b", "1">>, !.visible = FALSE] >>
      [] n = 2 ->   \* a search form
            << [BaseNode EXCEPT !.tag = "a", !.href = <<"/", "x">>, !.text = H_ELLO,
                                !.path = <<"a", "1">>],
               [BaseNode EXCEPT !.tag = "a", !.href = <<"/", "x">>, !.text = H_ELLO,
                                !.id = <<"d", "u", "p">>],
               [BaseNode EXCEPT !.tag = "input", !.placeholder = <<"q">>,
                                !.id = <<"q">>],
               [BaseNode EXCEPT !.tag = "button", !.text = <<"G", "o">>,
                                !.path = <<"b", "1">>],
               [BaseNode EXCEPT !.tag = "a", !.href = <<"/", "y">>,
                                !.text = <<"N", "e", "x", "t">>,
                                !.testid = <<"n", "x">>],
               [BaseNode EXCEPT !.tag = "textarea", !.path = <<"t", "1">>],
               [BaseNode EXCEPT !.tag = "select", !.name = <<"s">>,
                                !.path = <<"s", "1">>],
               [BaseNode EXCEPT !.tag = "a", !.href = <<"/", "z">>, !.role = "button",
                                !.text = <<"Z">>, !.aria = <<"z">>],
               [BaseNode EXCEPT !.tag = "a",
                                !.href = JAVASCRIPT \o <<"v">>,
                                !.text = <<"J">>, !.path = <<"a", "5">>] >>
      [] n = 3 ->   \* a result list with a filter box
            << [BaseNode EXCEPT !.tag = "a", !.href = <<"/", "p">>,
                                !.text = <<"P", "r", "o", "f">>,
                                !.path = <<"a", "9">>],
               [BaseNode EXCEPT !.tag = "input", !.itype = "submit",
                                !.value = <<"G", "o">>, !.path = <<"i", "1">>],
               [BaseNode EXCEPT !.tag = "input", !.itype = "email",
                                !.path = <<"i", "2">>] >>
      [] n = 5 ->   \* two links whose texts and hrefs contain a colon
            << [BaseNode EXCEPT !.tag = "a", !.href = <<"b">>, !.text = <<"a", ":">>,
                                !.path = <<"a", "1">>],
               [BaseNode EXCEPT !.tag = "a", !.href = <<":", "b">>, !.text = <<"a">>,
                                !.path = <<"a", "2">>] >>
      [] OTHER -> <<>>   \* a page without interactive elements

LabelChar == <<"a", "b", ":">>

\* a text that encodes k, distinct for distinct k
RECURSIVE Label(_)
Label(k) ==
    IF k < 3 THEN <<LabelChar[k + 1]>>
    ELSE Label(k \div 3) \o <<LabelChar[(k % 3) + 1]>>

\* node i of a generated document: tags cycle through the five kinds; with
\* m > 0 every m-th node repeats the content of the node of its kind before it
GenNode(i, m) ==
    LET j == IF m > 0 /\ i > 5 /\ i % m = 0 THEN i - 5 ELSE i
        lab == Label(j)
        at == <<"n">> \o Decimal(i)
    IN CASE i % 5 = 0 -> [BaseNode EXCEPT !.tag = "a", !.text = lab,
                                          !.href = <<"/">> \o lab, !.path = at]
         [] i % 5 = 1 -> [BaseNode EXCEPT !.tag = "button", !.text = lab, !.path = at]
         [] i % 5 = 2 -> [BaseNode EXCEPT !.tag = "input", !.placeholder = lab,
                                          !.path = at]
         [] i % 5 = 3 -> [BaseNode EXCEPT !.tag = "textarea", !.placeholder = lab,
                                          !.path = at]
         [] OTHER     -> [BaseNode EXCEPT !.tag = "select", !.name = lab, !.path = at]

DocPage(n) == [kind |-> "doc", n |-> n, m |-> 0]
GenPage(n, m) == [kind |-> "gen", n |-> n, m |-> m]

DomOf(p) == IF p.kind = "doc" THEN Doc(p.n) ELSE [i \in 1..p.n |-> GenNode(i, p.m)]

SmallPages == {DocPage(n) : n \in 2..4}
GenPages == {GenPage(n, m) : n \in 0..MaxNodes, m \in {0, 7, 50}}

\* a locator for `selector` finds an element in the live document
Live(selector, p) ==
    \E i \in 1..Len(DomOf(p)) : getSelector(DomOf(p)[i]) = selector

----------------------------------------------------------------------------
(* BrowserController.  Each operation is an operator from the controller   *)
(* state and the browser's behaviour `e` in this call to an outcome: the   *)
(* ToolResult returned (or the exception raised), the new element map,     *)
(* retry counters and document, and the browser actions attempted.         *)

Ok(data) == [success |-> TRUE, data |-> data]
Fail(text, cause) == [success |-> FALSE, error |-> [text |-> text, cause |-> cause]]
Thrown(text) == [thrown |-> text]

MapGet(m, k) == IF k \in DOMAIN m THEN m[k] ELSE 0
MapSet(m, k, v) == [x \in DOMAIN m \cup {k} |-> IF x = k THEN v ELSE m[x]]
MapDelete(m, k) == [x \in DOMAIN m \ {k} |-> m[x]]

\* an argument absent from the parsed arguments object
Undefined == <<"undefined">>

\* `${action}:${args.join(':')}`, one argument; join renders undefined as ''
getRetryKey(action, arg) == <<action, ":">> \o (IF arg = Undefined THEN <<>> ELSE arg)

\* a limit that is reached one failure earlier
checkRetryLimitEager(rc, key) ==
    LET count == MapGet(rc, key) IN
    IF count + 1 >= RETRY_CEILING
    THEN [ok |-> FALSE, rc |-> MapDelete(rc, key)]
    ELSE [ok |-> TRUE, rc |-> MapSet(rc, key, count + 1)]

\* returns [ok, rc]: the boolean returned and the counters afterwards
checkRetryLimit(rc, key) ==
    LET count == MapGet(rc, key) IN
    IF count >= RETRY_CEILING
    THEN [ok |-> FALSE, rc |-> MapDelete(rc, key)]
    ELSE [ok |-> TRUE, rc |-> MapSet(rc, key, count + 1)]

clearRetry(rc, key) == MapDelete(rc, key)

\* a lookup that takes an unknown ref for a selector
ResolveGuessing(ref) == IF ref \in DOMAIN elementMap THEN elementMap[ref] ELSE ref

\* this.elementMap.get(ref); undefined and '' are both falsy
Resolve(ref) == IF ref \in DOMAIN elementMap THEN elementMap[ref] ELSE <<>>

Outcome(result, rc, emap, pg, attempts, target, key, engaged) ==
    [result |-> result, raised |-> FALSE, retry |-> rc, emap |-> emap, page |-> pg,
     attempts |-> attempts, target |-> target, key |-> key, engaged |-> engaged]

\* getPage() on a controller whose page is null
NotInitialized ==
    [result |-> Thrown("Browser not initialized"), raised |-> TRUE,
     retry |-> retryCount, emap |-> elementMap, page |-> page,
     attempts |-> <<>>, target |-> <<>>, key |-> <<>>, engaged |-> FALSE]

\* a url that is requested as given
NormalizeUrlVerbatim(url) == url

NormalizeUrl(url) ==
    IF ~StartsWith(url, <<"http://">>) /\ ~StartsWith(url, <<"https://">>)
    THEN <<"https://">> \o url
    ELSE url

\* a navigation that drops the element map when the document has loaded
navigateInvalidating(url, e) ==
    LET retryKey == getRetryKey("navigate", url)
        absent == url = Undefined
        requested == IF absent THEN <<>> ELSE NormalizeUrl(url)
        attempts == IF absent THEN <<>> ELSE <<"goto">>
        cause == IF absent THEN "TypeError" ELSE "goto"
        chk == checkRetryLimit(retryCount, retryKey)
    IN IF ~browserReady THEN NotInitialized
       ELSE IF e.ok /\ ~absent
       THEN Outcome(Ok([url |-> requested]), clearRetry(retryCount, retryKey),
                    <<>>, e.next, attempts, requested, retryKey, TRUE)
       ELSE IF chk.ok
       THEN Outcome(Fail("Navigation failed. Retrying...", cause), chk.rc,
                    elementMap, page, attempts, requested, retryKey, TRUE)
       ELSE Outcome(Fail("Navigation failed after retries", cause), chk.rc,
                    elementMap, page, attempts, requested, retryKey, TRUE)

\* e = [ok, next]: whether goto and the settle delay succeed, the document loaded;
\* url.startsWith on an absent url raises inside the try block
navigate(url, e) ==
    LET retryKey == getRetryKey("navigate", url)
        absent == url = Undefined
        requested == IF absent THEN <<>> ELSE NormalizeUrl(url)
        attempts == IF absent THEN <<>> ELSE <<"goto">>
        cause == IF absent THEN "TypeError" ELSE "goto"
        chk == checkRetryLimit(retryCount, retryKey)
    IN IF ~browserReady THEN NotInitialized
       ELSE IF e.ok /\ ~absent
       THEN Outcome(Ok([url |-> requested]), clearRetry(retryCount, retryKey),
                    elementMap, e.next, attempts, requested, retryKey, TRUE)
       ELSE IF chk.ok
       THEN Outcome(Fail("Navigation failed. Retrying...", cause), chk.rc,
                    elementMap, page, attempts, requested, retryKey, TRUE)
       ELSE Outcome(Fail("Navigation failed after retries", cause), chk.rc,
                    elementMap, page, attempts, requested, retryKey, TRUE)

\* a click that reports a stale ref once the retry limit is reached
clickMisreporting(ref, e) ==
    LET selector == Resolve(ref)
        retryKey == getRetryKey("click", ref)
        chk == checkRetryLimit(retryCount, retryKey)
    IN IF ~browserReady THEN NotInitialized
       ELSE IF selector = <<>>
       THEN Outcome(Fail("Element not found. Call get_page_context() first to refresh elements.",
                         "none"),
                    retryCount, elementMap, page, <<>>, <<>>, retryKey, FALSE)
       ELSE IF e.primary
       THEN Outcome(Ok([clicked |-> ref]), clearRetry(retryCount, retryKey),
                    elementMap, e.next, <<"click">>, selector, retryKey, TRUE)
       ELSE IF chk.ok
       THEN IF e.fallback
            THEN Outcome(Ok([clicked |-> ref, forced |-> TRUE]),
                         clearRetry(chk.rc, retryKey), elementMap, e.next,
                         <<"click", "forceClick">>, selector, retryKey, TRUE)
            ELSE Outcome(Fail("Click failed. Try scrolling or refreshing page context.",
                              "click"),
                         chk.rc, elementMap, page, <<"click", "forceClick">>,
                         selector, retryKey, TRUE)
       ELSE Outcome(Fail("Element not found. Call get_page_context() first to refresh elements.",
                         "click"),
                    chk.rc, elementMap, page, <<"click">>, selector, retryKey, TRUE)

\* e = [primary, fallback, next]
click(ref, e) ==
    LET selector == Resolve(ref)
        retryKey == getRetryKey("click", ref)
        chk == checkRetryLimit(retryCount, retryKey)
    IN IF ~browserReady THEN NotInitialized
       ELSE IF selector = <<>>
       THEN Outcome(Fail("Element not found. Call get_page_context() first to refresh elements.",
                         "none"),
                    retryCount, elementMap, page, <<>>, <<>>, retryKey, FALSE)
       ELSE IF e.primary
       THEN Outcome(Ok([clicked |-> ref]), clearRetry(retryCount, retryKey),
                    elementMap, e.next, <<"click">>, selector, retryKey, TRUE)
       ELSE IF chk.ok
       THEN IF e.fallback
            THEN Outcome(Ok([clicked |-> ref, forced |-> TRUE]),
                         clearRetry(chk.rc, retryKey), elementMap, e.next,
                         <<"click", "forceClick">>, selector, retryKey, TRUE)
            ELSE Outcome(Fail("Click failed. Try scrolling or refreshing page context.",
                              "click"),
                         chk.rc, elementMap, page, <<"click", "forceClick">>,
                         selector, retryKey, TRUE)
       ELSE Outcome(Fail("Click failed after retries", "click"), chk.rc,
                    elementMap, page, <<"click">>, selector, retryKey, TRUE)

\* e = [primary, fill, sequential, next]
typeText(ref, pressEnter, e) ==
    LET selector == Resolve(ref)
        retryKey == getRetryKey("type", ref)
        chk == checkRetryLimit(retryCount, retryKey)
    IN IF ~browserReady THEN NotInitialized
       ELSE IF selector = <<>>
       THEN Outcome(Fail("Element not found. Call get_page_context() first.", "none"),
                    retryCount, elementMap, page, <<>>, <<>>, retryKey, FALSE)
       ELSE IF e.primary
       THEN Outcome(Ok([pressedEnter |-> pressEnter]),
                    clearRetry(retryCount, retryKey), elementMap, e.next,
                    <<"type">>, selector, retryKey, TRUE)
       ELSE IF chk.ok
       THEN IF e.fill
            THEN Outcome(Ok([pressedEnter |-> pressEnter, method |-> "fill"]),
                         clearRetry(chk.rc, retryKey), elementMap, e.next,
                         <<"type", "fill">>, selector, retryKey, TRUE)
            ELSE IF e.sequential
            THEN Outcome(Ok([pressedEnter |-> pressEnter,
                             method |-> "pressSequentially"]),
                         clearRetry(chk.rc, retryKey), elementMap, e.next,
                         <<"type", "fill", "pressSequentially">>, selector,
                         retryKey, TRUE)
            ELSE Outcome(Fail("All type methods failed. Last error", "type"),
                         chk.rc, elementMap, page,
                         <<"type", "fill", "pressSequentially">>, selector,
                         retryKey, TRUE)
       ELSE Outcome(Fail("Type failed after retries", "type"), chk.rc,
                    elementMap, page, <<"type">>, selector, retryKey, TRUE)

\* e = [ok]
scroll(direction, e) ==
    IF ~browserReady THEN NotInitialized
    ELSE IF e.ok
    THEN Outcome(Ok([scrolled |-> direction]), retryCount, elementMap, page,
                 <<"wheel">>, <<>>, <<>>, FALSE)
    ELSE Outcome(Fail("Scroll failed", "wheel"), retryCount, elementMap, page,
                 <<"wheel">>, <<>>, <<>>, FALSE)

\* a map filled with set(el.selector, el.ref)
BuildElementMapSwapped(elements) ==
    [x \in {elements[i].selector : i \in 1..Len(elements)} |->
        LET last == CHOOSE i \in 1..Len(elements) :
                        /\ elements[i].selector = x
                        /\ \A j \in (i + 1)..Len(elements) : elements[j].selector # x
        IN elements[last].ref]

\* elementMap.clear(); for (el of elements) elementMap.set(el.ref, el.selector)
BuildElementMap(elements) ==
    [r \in {elements[i].ref : i \in 1..Len(elements)} |->
        LET last == CHOOSE i \in 1..Len(elements) :
                        /\ elements[i].ref = r
                        /\ \A j \in (i + 1)..Len(elements) : elements[j].ref # r
        IN elements[last].selector]

\* a snapshot that adds to the map without clearing it first
getPageContextMerging(e) ==
    LET elements == extractPageContext(DomOf(page))
        fresh == BuildElementMap(elements)
    IN IF ~browserReady THEN NotInitialized
       ELSE IF e.ok
       THEN Outcome(Ok([url |-> page, elements |-> elements]), retryCount,
                    [r \in DOMAIN elementMap \cup DOMAIN fresh |->
                        IF r \in DOMAIN fresh THEN fresh[r] ELSE elementMap[r]],
                    page, <<>>, <<>>, <<>>, FALSE)
       ELSE Outcome(Fail("Failed to extract page context", "evaluate"), retryCount,
                    elementMap, page, <<>>, <<>>, <<>>, FALSE)

\* a snapshot that also forgets the retry counters
getPageContextForgetting(e) ==
    LET elements == extractPageContext(DomOf(page)) IN
    IF ~browserReady THEN NotInitialized
    ELSE IF e.ok
    THEN Outcome(Ok([url |-> page, elements |-> elements]), <<>>,
                 BuildElementMap(elements), page, <<>>, <<>>, <<>>, FALSE)
    ELSE Outcome(Fail("Failed to extract page context", "evaluate"), retryCount,
                 elementMap, page, <<>>, <<>>, <<>>, FALSE)

\* e = [ok]: whether waitForLoadState and the in-page evaluation succeed
getPageContext(e) ==
    LET elements == extractPageContext(DomOf(page)) IN
    IF ~browserReady THEN NotInitialized
    ELSE IF e.ok
    THEN Outcome(Ok([url |-> page, elements |-> elements]), retryCount,
                 BuildElementMap(elements), page, <<>>, <<>>, <<>>, FALSE)
    ELSE Outcome(Fail("Failed to extract page context", "evaluate"), retryCount,
                 elementMap, page, <<>>, <<>>, <<>>, FALSE)

\* extractCandidates, extractSocialLinks, extractProfileTabs,
\* extractDetailedProfileInfo, getPageTextSummary: read-only, one shape
ExtractOps ==
    {"extractCandidates", "extractSocialLinks", "extractProfileTabs",
     "extractDetailedProfileInfo", "getPageTextSummary"}

extract(op, e) ==
    IF ~browserReady THEN NotInitialized
    ELSE IF e.ok
    THEN Outcome(Ok([by |-> op]), retryCount, elementMap, page,
                 <<>>, <<>>, <<>>, FALSE)
    ELSE Outcome(Fail("Failed to extract", op), retryCount, elementMap, page,
                 <<>>, <<>>, <<>>, FALSE)

----------------------------------------------------------------------------
(* Values of the agent loops *)

Null == [null |-> TRUE]

NoTool ==
    [loop |-> "none", id |-> <<>>, name |-> "none", parsed |-> TRUE, arg |-> <<>>,
     input |-> <<>>, content |-> [success |-> TRUE], ops |-> <<>>]

NoCalls == [n |-> 0, k |-> 0]

\* no snapshot has been taken
NoSnap == [loop |-> "none", task |-> 0]

\* no model takes part; the browser may show any of the small documents
NoCollab == [tools |-> {}, subTools |-> {}, requests |-> 0, invocations |-> 0,
             calls |-> 0, malformed |-> FALSE, pages |-> SmallPages, answers |-> {}]

\* a budget of the exploration that is not counted
Unbounded == -1

Within(budget, used) == budget = Unbounded \/ used < budget

Spend(budget, used) == IF budget = Unbounded THEN used ELSE used + 1

\* no agent has been constructed and no task entered
Idle ==
    /\ agent = "null"
    /\ pc = "prompt"
    /\ tasks = 0
    /\ iteration = 0
    /\ taskComplete = FALSE
    /\ taskResult = Null
    /\ messages = <<>>
    /\ calls = NoCalls
    /\ lastTool = NoTool
    /\ taskReturn = Null
    /\ completions = 0
    /\ proc = "running"
    /\ asked = 0
    /\ invoked = 0
    /\ subPc = "idle"
    /\ subIteration = 0
    /\ scanComplete = FALSE
    /\ scanResult = Null
    /\ subMessages = <<>>
    /\ subCalls = NoCalls
    /\ scanUrl = <<>>

----------------------------------------------------------------------------
(* The controller driven directly: any caller, any argument of a small     *)
(* set, any behaviour of the browser.                                      *)

Ref(prefix, n) == <<prefix, "_">> \o Decimal(n)

\* refs a caller passes: produced by some snapshot, or never produced
RefArgs == {Ref("input", 1), Ref("tab", 1)}

UrlArgs == {<<"example.com">>, <<"https://", "example.com">>}

NoCall ==
    [op |-> "none", arg |-> <<>>, result |-> Ok(<<>>), raised |-> FALSE,
     attempts |-> <<>>, target |-> <<>>, key |-> <<>>, engaged |-> FALSE]

\* browser behaviours: a strategy can succeed only on an element that is in
\* the live document; a successful action may load or change the document
Strategy(selector) == IF Live(selector, page) THEN BOOLEAN ELSE {FALSE}

\* only the outcomes the call gets to see
ClickEnv(ref) ==
    LET may == Strategy(Resolve(ref)) IN
    {[primary |-> TRUE, fallback |-> TRUE, next |-> n] : n \in {p \in collab.pages : TRUE \in may}}
    \cup {[primary |-> FALSE, fallback |-> TRUE, next |-> n] :
                n \in {p \in collab.pages : TRUE \in may}}
    \cup {[primary |-> FALSE, fallback |-> FALSE, next |-> page]}

TypeEnv(ref) ==
    LET may == Strategy(Resolve(ref)) IN
    {e \in [primary : may, fill : may, sequential : may, next : {page}] :
        /\ e.primary => (e.fill /\ e.sequential)
        /\ e.fill => e.sequential}

NavigateEnv ==
    {[ok |-> TRUE, next |-> n] : n \in collab.pages} \cup {[ok |-> FALSE, next |-> page]}

OkEnv == [ok : BOOLEAN]

RefsOf(elements) == {elements[i].ref : i \in 1..Len(elements)}

\* the history kept about a call that returned outcome o
Record(op, arg, o) ==
    /\ lastCall' = [op |-> op, arg |-> arg, result |-> o.result, raised |-> o.raised,
                    attempts |-> o.attempts, target |-> o.target, key |-> o.key,
                    engaged |-> o.engaged]
    /\ failStreak' =
         IF ~o.engaged THEN failStreak
         ELSE IF o.result.success THEN MapDelete(failStreak, o.key)
         ELSE MapSet(failStreak, o.key, MapGet(failStreak, o.key) + 1)
    /\ IF op = "getPageContext" /\ ~o.raised /\ o.result.success
       THEN /\ snapRefs' = RefsOf(o.result.data.elements)
            /\ prevSnapRefs' = snapRefs
            /\ snapBy' = [loop |-> IF pc = "scan" THEN "sub" ELSE "primary",
                          task |-> tasks]
       ELSE UNCHANGED <<snapRefs, prevSnapRefs, snapBy>>

\* the exploration follows a failing call only within the bounds
WithinBounds(o) ==
    (o.engaged /\ ~o.result.success) =>
        /\ MapGet(failStreak, o.key) < MaxStreak
        /\ o.key \in DOMAIN failStreak \/ Cardinality(DOMAIN failStreak) < MaxOpenKeys

\* the controller state after a call that returned outcome o
Commit(op, arg, o) ==
    /\ WithinBounds(o)
    /\ elementMap' = o.emap
    /\ retryCount' = o.retry
    /\ page' = o.page
    /\ Record(op, arg, o)
    /\ UNCHANGED browserReady

CtlInit ==
    /\ browserReady = FALSE
    /\ page = DocPage(4)
    /\ elementMap = <<>>
    /\ retryCount = <<>>
    /\ lastCall = NoCall
    /\ failStreak = <<>>
    /\ snapRefs = {}
    /\ prevSnapRefs = {}
    /\ snapBy = NoSnap
    /\ Idle
    /\ collab = NoCollab

\* initialize(): launching the persistent context may fail
CtlInitialize ==
    /\ ~browserReady
    /\ browserReady' \in BOOLEAN
    /\ UNCHANGED <<page, elementMap, retryCount, lastCall, failStreak, snapRefs,
                   prevSnapRefs, snapBy, taskVars, scanVars>>

CtlNavigate == \E url \in UrlArgs, e \in NavigateEnv :
    /\ Commit("navigate", url, navigate(url, e))
    /\ UNCHANGED <<taskVars, scanVars>>

CtlClick == \E ref \in RefArgs : \E e \in ClickEnv(ref) :
    /\ Commit("click", ref, click(ref, e))
    /\ UNCHANGED <<taskVars, scanVars>>

CtlTypeText == \E ref \in RefArgs, pressEnter \in BOOLEAN : \E e \in TypeEnv(ref) :
    /\ Commit("typeText", ref, typeText(ref, pressEnter, e))
    /\ UNCHANGED <<taskVars, scanVars>>

CtlScroll == \E direction \in {"up", "down"}, e \in OkEnv :
    /\ Commit("scroll", <<direction>>, scroll(direction, e))
    /\ UNCHANGED <<taskVars, scanVars>>

CtlGetPageContext == \E e \in OkEnv :
    /\ Commit("getPageContext", <<>>, getPageContext(e))
    /\ UNCHANGED <<taskVars, scanVars>>

CtlExtract == \E op \in ExtractOps, e \in OkEnv :
    /\ Commit(op, <<>>, extract(op, e))
    /\ UNCHANGED <<taskVars, scanVars>>

\* the document changes by itself (scripts, timers): elements come and go
PageMutates ==
    /\ browserReady
    /\ page' \in collab.pages \ {page}
    /\ UNCHANGED <<browserReady, elementMap, retryCount, lastCall, failStreak,
                   snapRefs, prevSnapRefs, snapBy, taskVars, scanVars>>

CtlNext ==
    \/ CtlInitialize
    \/ CtlNavigate
    \/ CtlClick
    \/ CtlTypeText
    \/ CtlScroll
    \/ CtlGetPageContext
    \/ CtlExtract
    \/ PageMutates

SpecCtl == CtlInit /\ [][CtlNext]_vars

(* The compressor on generated documents of every size up to MaxNodes,    *)
(* and on the small document that replaces one of them.                    *)

ExtractInit ==
    /\ browserReady = TRUE
    /\ page \in GenPages \cup {DocPage(n) : n \in 1..5}
    /\ elementMap = <<>>
    /\ retryCount = <<>>
    /\ lastCall = NoCall
    /\ failStreak = <<>>
    /\ snapRefs = {}
    /\ prevSnapRefs = {}
    /\ snapBy = NoSnap
    /\ Idle
    /\ collab = NoCollab

\* snapshots, and the document replaced by a small one between them
ExtractNext ==
    \/ CtlGetPageContext
    \/ PageMutates

SpecExtract == ExtractInit /\ [][ExtractNext]_vars

----------------------------------------------------------------------------
(* AgentCoordinator: the handlers.  A handler maps the invocation `c` =     *)
(* [arg, flag, parsed] and the behaviour `e` of the browser or the human   *)
(* to the value it returns (or the exception it raises), the controller    *)
(* operation it ran, and what it stored in the coordinator.                *)


PrimaryTools ==
    {"navigate", "click", "type_text", "scroll", "get_page_context",
     "extract_candidates", "task_complete", "ask_user", "request_confirmation",
     "scan_profile_deep"}

SubAgentTools ==
    {"get_page_context", "click", "scroll", "extract_profile_data", "complete_scan"}

\* the controller left alone
Untouched ==
    Outcome(Ok(<<>>), retryCount, elementMap, page, <<>>, <<>>, <<>>, FALSE)

Handled(content, op, arg, o) ==
    [content |-> content, raised |-> o.raised, op |-> op, arg |-> arg, o |-> o,
     complete |-> FALSE, result |-> Null, input |-> <<>>]

\* JSON.stringify(result) of a controller result
OfController(op, arg, o) == Handled(o.result, op, arg, o)

handleNavigate(c, e) == OfController("navigate", c.arg, navigate(c.arg, e))

handleClick(c, e) == OfController("click", c.arg, click(c.arg, e))

handleTypeText(c, e) == OfController("typeText", c.arg, typeText(c.arg, c.flag, e))

handleScroll(c, e) == OfController("scroll", c.arg, scroll(c.arg[1], e))

\* the element as the model sees it: no selector, href cut to 100
FormatElement(el) ==
    IF el.href # <<>>
    THEN [ref |-> el.ref, type |-> el.type, text |-> el.text,
          href |-> Slice(el.href, HREF_LIMIT)]
    ELSE [ref |-> el.ref, type |-> el.type, text |-> el.text]

handleGetPageContext(e) ==
    LET o == getPageContext(e) IN
    IF ~o.raised /\ o.result.success
    THEN Handled(Ok([url |-> o.result.data.url,
                     elements |-> MapSeq(o.result.data.elements, FormatElement)]),
                 "getPageContext", <<>>, o)
    ELSE OfController("getPageContext", <<>>, o)

handleExtractCandidates(e) ==
    OfController("extractCandidates", <<>>, extract("extractCandidates", e))

handleTaskComplete(c) ==
    [Handled([success |-> TRUE, message |-> "Task marked as complete"],
             "none", <<>>, Untouched)
     EXCEPT !.complete = TRUE,
            !.result = [success |-> TRUE, candidates |-> c.arg, summary |-> c.parsed]]

handleAskUser(e) ==
    [Handled([success |-> TRUE, answer |-> e.answer], "none", <<>>, Untouched)
     EXCEPT !.input = e.answer]

YES == <<"y", "e", "s">>
NO == <<"n", "o">>

Whitespace == {" ", "\t", "\n"}

RECURSIVE trimStart(_)
trimStart(s) ==
    IF s # <<>> /\ Head(s) \in Whitespace THEN trimStart(Tail(s)) ELSE s

RECURSIVE trimEnd(_)
trimEnd(s) ==
    IF s # <<>> /\ s[Len(s)] \in Whitespace
    THEN trimEnd(SubSeq(s, 1, Len(s) - 1))
    ELSE s

\* the answer as typed
trimNone(s) == s

trim(s) == trimEnd(trimStart(s))

LowerChar(ch) ==
    CASE ch = "Y" -> "y" [] ch = "E" -> "e" [] ch = "S" -> "s"
      [] ch = "N" -> "n" [] ch = "O" -> "o" [] OTHER -> ch

toLowerCase(s) == [i \in 1..Len(s) |-> LowerChar(s[i])]

\* a confirmation that approves whatever is answered and ends the task
handleRequestConfirmationEnding(e) ==
    [Handled([success |-> TRUE, confirmed |-> TRUE,
              message |-> "User approved. You may proceed with the action."],
             "none", <<>>, Untouched)
     EXCEPT !.input = e.answer, !.complete = TRUE]

handleRequestConfirmation(e) ==
    LET confirmed == toLowerCase(trim(e.answer)) = YES IN
    [Handled(IF confirmed
             THEN [success |-> TRUE, confirmed |-> TRUE,
                   message |-> "User approved. You may proceed with the action."]
             ELSE [success |-> FALSE, confirmed |-> FALSE,
                   message |-> "User rejected. Do not proceed. Consider alternative approaches."],
             "none", <<>>, Untouched)
     EXCEPT !.input = e.answer]

ScanFailed(cause) ==
    [success |-> FALSE, error |-> [text |-> "Sub-agent scan failed", cause |-> cause]]

\* what handleScanProfileDeep makes of the ProfileScanResult
ScanContent(r) ==
    [success |-> TRUE,
     data |-> [socialLinks |-> r.socialLinks, tldrSummary |-> r.tldrSummary,
               additionalData |-> r.additionalData]]

NavigationErrorResult(profileUrl) ==
    [success |-> FALSE, profileUrl |-> profileUrl, socialLinks |-> <<>>,
     tldrSummary |-> "Failed to scan profile - navigation error",
     additionalData |-> Undefined]

\* scanProfile up to its loop: username.slice on an absent username raises,
\* then the navigation to the profile
ScanEntry(c, e) ==
    LET o == navigate(c.arg, e) IN
    IF ~c.parsed THEN [enters |-> FALSE, h |-> Handled(ScanFailed("TypeError"), "none", <<>>, Untouched)]
    ELSE IF o.raised
    THEN [enters |-> FALSE,
          h |-> [Handled(ScanFailed(o.result.thrown), "navigate", c.arg, o)
                 EXCEPT !.raised = FALSE]]
    ELSE IF ~o.result.success
    THEN [enters |-> FALSE,
          h |-> Handled(ScanContent(NavigationErrorResult(c.arg)), "navigate", c.arg, o)]
    ELSE [enters |-> TRUE, h |-> Handled(Ok(<<>>), "navigate", c.arg, o)]

\* an unknown tool that empties the element map on its way
UnknownToolResetting(name) ==
    Handled([error |-> [text |-> "Unknown tool", cause |-> name]], "getPageContext",
            <<>>,
            Outcome(Ok([url |-> page, elements |-> <<>>]), retryCount, <<>>, page,
                    <<>>, <<>>, <<>>, FALSE))

UnknownTool(name) ==
    Handled([error |-> [text |-> "Unknown tool", cause |-> name]], "none", <<>>,
            Untouched)

\* the switch of executeTool
Dispatch(name, c, e) ==
    CASE name = "navigate" -> handleNavigate(c, e)
      [] name = "click" -> handleClick(c, e)
      [] name = "type_text" -> handleTypeText(c, e)
      [] name = "scroll" -> handleScroll(c, e)
      [] name = "get_page_context" -> handleGetPageContext(e)
      [] name = "extract_candidates" -> handleExtractCandidates(e)
      [] name = "task_complete" -> handleTaskComplete(c)
      [] name = "ask_user" -> handleAskUser(e)
      [] name = "request_confirmation" -> handleRequestConfirmation(e)
      [] name = "scan_profile_deep" -> ScanEntry(c, e).h
      [] OTHER -> UnknownTool(name)

\* the content executeTool appends: the handler's value, or the caught exception
ResultContent(h) ==
    IF h.raised
    THEN [error |-> [text |-> "Tool execution failed", cause |-> h.o.result.thrown]]
    ELSE h.content

----------------------------------------------------------------------------
(* ProfileScannerSubAgent: the tools of executeSubAgentTool *)

\* e = [social, rest]: whether the social-link extraction and the other
\* read-only extractions succeed
extractProfileData(e) ==
    LET social == extract("extractSocialLinks", [ok |-> e.social])
        o == extract("getPageTextSummary", [ok |-> e.rest])
    IN IF o.raised THEN OfController("getPageTextSummary", <<>>, o)
       ELSE Handled([success |-> TRUE,
                     socialLinks |-> IF social.result.success
                                     THEN social.result.data ELSE <<>>,
                     tabs |-> o.result.success,
                     detailedInfo |-> o.result.success,
                     pageTextPreview |-> o.result.success],
                    "getPageTextSummary", <<>>, o)

completeScan(c) ==
    [Handled([success |-> TRUE, message |-> "Scan completed"], "none", <<>>, Untouched)
     EXCEPT !.complete = TRUE,
            !.result = [success |-> TRUE, profileUrl |-> <<>>,
                        socialLinks |-> IF c.arg = Undefined THEN <<>> ELSE c.arg,
                        tldrSummary |-> IF c.parsed THEN "given"
                                        ELSE "No summary generated",
                        additionalData |-> Undefined]]

\* a switch that also passes navigate through to the controller
SubDispatchOpen(name, c, e) ==
    CASE name = "get_page_context" ->
            OfController("getPageContext", <<>>, getPageContext(e))
      [] name = "click" -> OfController("click", c.arg, click(c.arg, e))
      [] name = "scroll" -> OfController("scroll", c.arg, scroll(c.arg[1], e))
      [] name = "extract_profile_data" -> extractProfileData(e)
      [] name = "complete_scan" -> completeScan(c)
      [] name = "navigate" -> OfController("navigate", c.arg, navigate(c.arg, e))
      [] OTHER -> UnknownTool(name)

\* the switch of executeSubAgentTool
SubDispatch(name, c, e) ==
    CASE name = "get_page_context" ->
            OfController("getPageContext", <<>>, getPageContext(e))
      [] name = "click" -> OfController("click", c.arg, click(c.arg, e))
      [] name = "scroll" -> OfController("scroll", c.arg, scroll(c.arg[1], e))
      [] name = "extract_profile_data" -> extractProfileData(e)
      [] name = "complete_scan" -> completeScan(c)
      [] OTHER -> UnknownTool(name)

\* scanProfile after its loop, when no result was stored
Fallback(e) ==
    LET social == extract("extractSocialLinks", [ok |-> e.social])
        o == extract("getPageTextSummary", [ok |-> e.rest])
    IN [raised |-> o.raised, o |-> o,
        result |-> [success |-> TRUE, profileUrl |-> scanUrl,
                    socialLinks |-> IF ~o.raised /\ social.result.success
                                    THEN social.result.data ELSE <<>>,
                    tldrSummary |-> "Profile scanned (fallback)",
                    additionalData |-> Undefined]]

----------------------------------------------------------------------------
(* The collaborators: what the model proposes, what the human answers *)

LoopUrls == {<<"example.com">>}

CandidateLists == {<<>>, <<"alice">>}

Answers ==
    {YES, <<"Y", "E", "S">>, <<" ", "Y", "e", "s", "\t">>, <<"y">>, <<>>, NO,
     <<"y", "e", "s", "!">>, <<"y", "e", " ", "s">>}

ExtractEnv == [social : BOOLEAN, rest : BOOLEAN]

ToolArgs(name) ==
    CASE name \in {"navigate", "scan_profile_deep"} -> LoopUrls
      [] name \in {"click", "type_text"} -> RefArgs
      [] name = "scroll" -> {<<"up">>, <<"down">>}
      [] name = "task_complete" -> CandidateLists
      [] name = "complete_scan" -> {<<"twitter">>}
      [] OTHER -> {<<>>}

\* the invocations the model may make of a tool; an argument string that
\* does not parse leaves every argument absent, which a tool that reads no
\* argument does not notice
ToolCalls(name) ==
    {[arg |-> a, flag |-> f, parsed |-> TRUE] :
        a \in ToolArgs(name), f \in (IF name = "type_text" THEN BOOLEAN ELSE {FALSE})}
    \cup (IF collab.malformed /\ ToolArgs(name) # {<<>>}
          THEN {[arg |-> Undefined, flag |-> FALSE, parsed |-> FALSE]}
          ELSE {})

\* what the user types when the agent asks a question
Replies == {<<"G", "o">>}

ToolEnv(name, c) ==
    CASE name \in {"navigate", "scan_profile_deep"} -> NavigateEnv
      [] name = "click" -> ClickEnv(c.arg)
      [] name = "type_text" -> TypeEnv(c.arg)
      [] name \in {"scroll", "get_page_context", "extract_candidates"} -> OkEnv
      [] name = "extract_profile_data" -> ExtractEnv
      [] name = "ask_user" -> [answer : Replies]
      [] name = "request_confirmation" -> [answer : collab.answers]
      [] OTHER -> {[ok |-> TRUE]}

\* a response of the model: the call fails, or a message with n invocations
Responses(maxCalls) ==
    {[ok |-> FALSE, n |-> 0, text |-> "none"]}
    \cup {[ok |-> TRUE, n |-> n, text |-> t] : n \in 0..maxCalls, t \in {"content", "none"}}

Entry(role, ids, text) == [role |-> role, ids |-> ids, text |-> text]

\* the ids the model gives the invocations of one proposal are distinct
CallId(loop, i) == <<loop, i>>

Proposed(loop, r) ==
    Entry("assistant", [i \in 1..r.n |-> CallId(loop, i)], r.text)

\* every result entry carries the id of the proposal's first invocation
CurrentCallFirst(msgs, cl) == msgs[Len(msgs) - cl.k].ids[1]

\* the invocation the for-loop over tool_calls has reached
CurrentCall(msgs, cl) == msgs[Len(msgs) - cl.k].ids[cl.k + 1]

ToolEntry(loop, id, name, c, h, content, ops) ==
    [loop |-> loop, id |-> id, name |-> name, parsed |-> c.parsed, arg |-> c.arg,
     input |-> h.input, content |-> content, ops |-> ops]

OpsOf(h) == IF h.op = "none" THEN <<>> ELSE <<h.op>>

ApplyCtl(h) ==
    IF h.op = "none" THEN UNCHANGED ctlVars ELSE Commit(h.op, h.arg, h.o)

----------------------------------------------------------------------------
(* index.ts and AgentCoordinator.runTask *)

\* a task typed at the prompt: the agent is constructed and initialized if
\* there is none, then runTask resets the task state and seeds the messages
StartTask ==
    /\ pc = "prompt"
    /\ Within(collab.requests, asked)
    /\ tasks' = tasks + 1
    /\ agent' = "constructed"
    /\ \E launched \in BOOLEAN :
         /\ browserReady' = IF agent = "null" THEN launched ELSE browserReady
         /\ IF agent = "null" /\ ~launched
            THEN UNCHANGED <<pc, iteration, taskComplete, taskResult, messages,
                             taskReturn, completions>>
            ELSE /\ pc' = "loop"
                 /\ iteration' = 0
                 /\ taskReturn' = Null
                 /\ completions' = 0
                 /\ taskComplete' = FALSE
                 /\ taskResult' = Null
                 /\ messages' = <<Entry("system", <<>>, "content"),
                                  Entry("user", <<>>, "content")>>
    /\ UNCHANGED <<page, elementMap, retryCount, lastCall, failStreak, snapRefs,
                   prevSnapRefs, snapBy, calls, lastTool, asked, invoked, collab, proc,
                   scanVars>>

\* while (!this.taskComplete && iteration < MAX_ITERATIONS)
LoopContinuesShort(done, it) == ~done /\ it < MAX_ITERATIONS - 1

LoopContinues(done, it) == ~done /\ it < MAX_ITERATIONS

\* the value runTask returns after the loop
TaskOutcome(result) ==
    IF result = Null
    THEN [success |-> FALSE, candidates |-> <<>>,
          summary |-> "Task did not complete within 500 iterations."]
    ELSE result

\* an iteration that is not counted
RunTaskIterateUncounted ==
    /\ pc = "loop"
    /\ LoopContinues(taskComplete, iteration)
    /\ Within(collab.requests, asked)
    /\ iteration' = iteration
    /\ messages' = <<>>
    /\ pc' = "step"
    /\ UNCHANGED <<ctlVars, agent, tasks, taskComplete, taskResult, calls, lastTool,
                   taskReturn, completions, asked, invoked, collab, proc, scanVars>>

\* the loop condition holds: iteration++, and executeStep is entered
RunTaskIterate ==
    /\ pc = "loop"
    /\ LoopContinues(taskComplete, iteration)
    /\ Within(collab.requests, asked)
    /\ iteration' = iteration + 1
    /\ messages' = <<>>
    /\ pc' = "step"
    /\ UNCHANGED <<ctlVars, agent, tasks, taskComplete, taskResult, calls, lastTool,
                   taskReturn, completions, asked, invoked, collab, proc, scanVars>>

\* executeStep up to the for-loop; an exception of the model call is caught
\* in runTask, which appends the diagnostic user message
ExecuteStep ==
    /\ pc = "step"
    /\ asked' = Spend(collab.requests, asked)
    /\ \E r \in Responses(collab.calls) :
         IF ~r.ok
         THEN /\ messages' = Append(messages, Entry("user", <<>>, "System error occurred"))
              /\ pc' = "loop"
              /\ UNCHANGED calls
         ELSE /\ messages' = Append(messages, Proposed("primary", r))
              /\ calls' = [n |-> r.n, k |-> 0]
              /\ pc' = IF r.n > 0 THEN "tools" ELSE "loop"
    /\ UNCHANGED <<ctlVars, agent, tasks, iteration, taskComplete, taskResult,
                   lastTool, taskReturn, completions, invoked, collab, proc, scanVars>>

\* the end of executeTool: the result entry is appended
FinishTool(name, c, h, content, ops) ==
    /\ messages' = Append(messages, Entry("tool", <<CurrentCall(messages, calls)>>, "result"))
    /\ lastTool' = ToolEntry("primary", CurrentCall(messages, calls), name, c, h,
                             content, ops)
    /\ calls' = [calls EXCEPT !.k = @ + 1]
    /\ pc' = IF calls.k + 1 = calls.n THEN "loop" ELSE "tools"
    /\ taskComplete' = (taskComplete \/ h.complete)
    /\ taskResult' = IF h.complete THEN h.result ELSE taskResult
    /\ completions' = IF name = "task_complete" THEN completions + 1 ELSE completions
    /\ UNCHANGED <<agent, tasks, iteration, taskReturn, asked, collab, proc>>

\* scanProfile enters its loop
BeginScan(c, o) ==
    /\ Commit("navigate", c.arg, o)
    /\ pc' = "scan"
    /\ subPc' = "loop"
    /\ subIteration' = 0
    /\ scanComplete' = FALSE
    /\ scanResult' = Null
    /\ subMessages' = <<Entry("system", <<>>, "content"), Entry("user", <<>>, "content")>>
    /\ subCalls' = NoCalls
    /\ scanUrl' = c.arg
    /\ UNCHANGED <<agent, tasks, iteration, taskComplete, taskResult, messages,
                   calls, lastTool, taskReturn, completions, asked, collab, proc>>

\* executeTool for one invocation of the proposal
ExecuteTool ==
    /\ pc = "tools"
    /\ Within(collab.invocations, invoked)
    /\ invoked' = Spend(collab.invocations, invoked)
    /\ \E name \in collab.tools : \E c \in ToolCalls(name) : \E e \in ToolEnv(name, c) :
         IF name = "scan_profile_deep" /\ ScanEntry(c, e).enters
         THEN BeginScan(c, ScanEntry(c, e).h.o)
         ELSE LET h == Dispatch(name, c, e) IN
              /\ ApplyCtl(h)
              /\ FinishTool(name, c, h, ResultContent(h), OpsOf(h))
              /\ IF name = "scan_profile_deep"
                 THEN /\ scanComplete' = FALSE
                      /\ scanResult' = Null
                      /\ UNCHANGED <<subPc, subIteration, subMessages, subCalls, scanUrl>>
                 ELSE UNCHANGED scanVars

\* the loop is left; runTask returns the stored result or the failure result
RunTaskReturn ==
    /\ pc = "loop"
    /\ ~LoopContinues(taskComplete, iteration)
    /\ taskReturn' = [value |-> TaskOutcome(taskResult), iterations |-> iteration]
    /\ pc' = "prompt"
    /\ UNCHANGED <<ctlVars, agent, tasks, iteration, taskComplete, taskResult,
                   messages, calls, lastTool, completions, asked, invoked, collab, proc,
                   scanVars>>

----------------------------------------------------------------------------
(* ProfileScannerSubAgent.scanProfile *)

\* an iteration of the scan that writes into the coordinator's conversation
SubIterateShared ==
    /\ pc = "scan"
    /\ subPc = "loop"
    /\ ~scanComplete
    /\ subIteration < SUB_AGENT_MAX_ITERATIONS
    /\ Within(collab.requests, asked)
    /\ subIteration' = subIteration + 1
    /\ subMessages' = <<>>
    /\ messages' = Append(messages, Entry("user", <<>>, "content"))
    /\ subPc' = "step"
    /\ UNCHANGED <<ctlVars, agent, pc, tasks, iteration, taskComplete, taskResult,
                   calls, lastTool, taskReturn, completions, asked, invoked, collab, proc,
                   scanComplete, scanResult, subCalls, scanUrl>>

SubIterate ==
    /\ pc = "scan"
    /\ subPc = "loop"
    /\ ~scanComplete
    /\ subIteration < SUB_AGENT_MAX_ITERATIONS
    /\ Within(collab.requests, asked)
    /\ subIteration' = subIteration + 1
    /\ subMessages' = <<>>
    /\ subPc' = "step"
    /\ UNCHANGED <<ctlVars, taskVars, scanComplete, scanResult, subCalls, scanUrl>>

\* executeSubAgentStep; its exception breaks the loop
SubStep ==
    /\ pc = "scan"
    /\ subPc = "step"
    /\ asked' = Spend(collab.requests, asked)
    /\ \E r \in Responses(collab.calls) :
         IF ~r.ok
         THEN /\ subPc' = "done"
              /\ UNCHANGED <<subMessages, subCalls>>
         ELSE IF r.n > 0
         THEN /\ subMessages' = Append(subMessages, Proposed("sub", r))
              /\ subCalls' = [n |-> r.n, k |-> 0]
              /\ subPc' = "tools"
         ELSE /\ subMessages' = IF r.text = "content"
                                THEN Append(subMessages, Proposed("sub", r))
                                ELSE subMessages
              /\ subPc' = "loop"
              /\ UNCHANGED subCalls
    /\ UNCHANGED <<ctlVars, agent, pc, tasks, iteration, taskComplete, taskResult,
                   messages, calls, lastTool, taskReturn, completions, invoked, collab, proc,
                   subIteration, scanComplete, scanResult, scanUrl>>

\* executeSubAgentTool for one invocation; its exception breaks the loop
SubTool ==
    /\ pc = "scan"
    /\ subPc = "tools"
    /\ Within(collab.invocations, invoked)
    /\ invoked' = Spend(collab.invocations, invoked)
    /\ \E name \in collab.subTools : \E c \in ToolCalls(name) : \E e \in ToolEnv(name, c) :
         LET h == SubDispatch(name, c, e) IN
         /\ ApplyCtl(h)
         /\ IF h.raised
            THEN /\ subPc' = "done"
                 /\ UNCHANGED <<subMessages, subCalls, lastTool, scanComplete, scanResult>>
            ELSE /\ subMessages' =
                      Append(subMessages,
                             Entry("tool", <<CurrentCall(subMessages, subCalls)>>, "result"))
                 /\ lastTool' = ToolEntry("sub", CurrentCall(subMessages, subCalls),
                                          name, c, h, h.content, OpsOf(h))
                 /\ subCalls' = [subCalls EXCEPT !.k = @ + 1]
                 /\ subPc' = IF subCalls.k + 1 = subCalls.n THEN "loop" ELSE "tools"
                 /\ scanComplete' = (scanComplete \/ h.complete)
                 /\ scanResult' = IF h.complete THEN h.result ELSE scanResult
    /\ UNCHANGED <<agent, pc, tasks, iteration, taskComplete, taskResult, messages,
                   calls, taskReturn, completions, asked, collab, proc, subIteration,
                   scanUrl>>

\* scanProfile returns to handleScanProfileDeep, which returns to executeTool
SubReturn ==
    /\ pc = "scan"
    /\ \/ subPc = "done"
       \/ subPc = "loop" /\ (scanComplete \/ subIteration >= SUB_AGENT_MAX_ITERATIONS)
    /\ \E e \in ExtractEnv :
         LET fb == Fallback(e)
             threw == scanResult = Null /\ fb.raised
             r == IF scanResult = Null THEN fb.result ELSE scanResult
             c == [arg |-> scanUrl, flag |-> FALSE, parsed |-> TRUE]
             h == Handled(IF threw THEN ScanFailed(fb.o.result.thrown) ELSE ScanContent(r),
                          "none", <<>>, Untouched)
         IN /\ IF scanResult = Null
               THEN Commit("getPageTextSummary", <<>>, fb.o)
               ELSE UNCHANGED ctlVars
            /\ scanResult' = IF threw THEN scanResult ELSE r
            /\ FinishTool("scan_profile_deep", c, h, h.content, <<"navigate", "scanProfile">>)
    /\ subPc' = "idle"
    /\ UNCHANGED <<invoked, subIteration, scanComplete, subMessages, subCalls, scanUrl>>

----------------------------------------------------------------------------
(* The task loop and the scan loop followed for a few model requests and   *)
(* tool invocations, with every tool, an unknown tool and unparsable       *)
(* arguments.                                                              *)

LoopCollab ==
    [tools |-> PrimaryTools \cup {"bogus"},
     subTools |-> SubAgentTools \cup {"navigate"},
     requests |-> MaxRequests, invocations |-> MaxInvocations,
     calls |-> MaxInvocations, malformed |-> TRUE, pages |-> {DocPage(2)},
     answers |-> Answers]

LoopInit ==
    /\ browserReady = FALSE
    /\ page = DocPage(4)
    /\ elementMap = <<>>
    /\ retryCount = <<>>
    /\ lastCall = NoCall
    /\ failStreak = <<>>
    /\ snapRefs = {}
    /\ prevSnapRefs = {}
    /\ snapBy = NoSnap
    /\ Idle
    /\ collab = LoopCollab

LoopNext ==
    \/ StartTask
    \/ RunTaskIterate
    \/ ExecuteStep
    \/ ExecuteTool
    \/ RunTaskReturn
    \/ SubIterate
    \/ SubStep
    \/ SubTool
    \/ SubReturn

SpecLoop == LoopInit /\ [][LoopNext]_vars

(* The same loops with the tools that take, use and outlive a snapshot, for *)
(* one more model request and one more tool invocation: a scan inside a    *)
(* task, and a second task after the first.                                *)

SnapshotCollab ==
    [tools |-> {"get_page_context", "click", "type_text", "scan_profile_deep",
                "task_complete"},
     subTools |-> {"get_page_context", "complete_scan"},
     requests |-> MaxRequests + 1, invocations |-> MaxInvocations + 1,
     calls |-> MaxInvocations, malformed |-> FALSE, pages |-> {DocPage(2)},
     answers |-> {}]

SnapshotInit ==
    /\ browserReady = FALSE
    /\ page = DocPage(4)
    /\ elementMap = <<>>
    /\ retryCount = <<>>
    /\ lastCall = NoCall
    /\ failStreak = <<>>
    /\ snapRefs = {}
    /\ prevSnapRefs = {}
    /\ snapBy = NoSnap
    /\ Idle
    /\ collab = SnapshotCollab

SpecSnapshot == SnapshotInit /\ [][LoopNext]_vars

(* The same loops with the shutdown path of index.ts: the signal handler   *)
(* runs between two steps of the task, awaits agent.close() while the task *)
(* goes on, and then ends the process.  The signal is taken where no tool  *)
(* is in flight, so that every browser action that follows it was issued   *)
(* after it.                                                               *)

\* the process awaits the prompt, the model, or the pause between two
\* iterations: a signal handler can run and nothing of a tool is in flight
AwaitsOutsideTools ==
    \/ pc \in {"prompt", "loop", "step"}
    \/ pc = "scan" /\ subPc = "step"

\* shutdown() is entered: with an agent it awaits agent.close(); without
\* one it closes the prompt and exits at once
Interrupt ==
    /\ proc = "running"
    /\ AwaitsOutsideTools
    /\ proc' = IF agent = "null" THEN "exited" ELSE "closing"
    /\ pc' = IF agent = "null" THEN "exited" ELSE pc
    /\ UNCHANGED <<ctlVars, agent, tasks, iteration, taskComplete, taskResult,
                   messages, calls, lastTool, taskReturn, completions, asked,
                   invoked, collab, scanVars>>

\* agent.close() has resolved: rl.close(); process.exit(0)
ProcessExit ==
    /\ proc = "closing"
    /\ proc' = "exited"
    /\ pc' = "exited"
    /\ UNCHANGED <<ctlVars, agent, tasks, iteration, taskComplete, taskResult,
                   messages, calls, lastTool, taskReturn, completions, asked,
                   invoked, collab, scanVars>>

ShutdownNext ==
    \/ LoopNext
    \/ Interrupt
    \/ ProcessExit

SpecShutdown == LoopInit /\ [][ShutdownNext]_vars

(* One task followed from the entry of runTask through the whole iteration *)
(* budget, with a model that fails, answers with text, or proposes one of  *)
(* a few tools.                                                            *)

BudgetCollab ==
    [tools |-> {"task_complete", "request_confirmation", "scroll", "bogus"},
     subTools |-> {}, requests |-> Unbounded, invocations |-> Unbounded,
     calls |-> MaxCalls, malformed |-> FALSE, pages |-> {DocPage(2)},
     answers |-> {YES, NO}]

BudgetInit ==
    /\ browserReady = TRUE
    /\ page = DocPage(2)
    /\ elementMap = <<>>
    /\ retryCount = <<>>
    /\ lastCall = NoCall
    /\ failStreak = <<>>
    /\ snapRefs = {}
    /\ prevSnapRefs = {}
    /\ snapBy = NoSnap
    /\ agent = "constructed"
    /\ pc = "loop"
    /\ tasks = 1
    /\ iteration = 0
    /\ taskComplete = FALSE
    /\ taskResult = Null
    /\ messages = <<Entry("system", <<>>, "content"), Entry("user", <<>>, "content")>>
    /\ calls = NoCalls
    /\ lastTool = NoTool
    /\ taskReturn = Null
    /\ completions = 0
    /\ proc = "running"
    /\ asked = 0
    /\ invoked = 0
    /\ subPc = "idle"
    /\ subIteration = 0
    /\ scanComplete = FALSE
    /\ scanResult = Null
    /\ subMessages = <<>>
    /\ subCalls = NoCalls
    /\ scanUrl = <<>>
    /\ collab = BudgetCollab

BudgetNext ==
    \/ RunTaskIterate
    \/ ExecuteStep
    \/ ExecuteTool
    \/ RunTaskReturn

SpecBudget == BudgetInit /\ [][BudgetNext]_vars

(* One task followed to its return under the assumption that every awaited *)
(* call returns: a step that can be taken is eventually taken.  The model  *)
(* fails, answers with text or with nothing, or proposes a tool, and the   *)
(* sub-agent likewise.  The task is followed through its whole iteration   *)
(* budget with the tools that start no scan, and through its last          *)
(* iteration, after a model that has only answered with text, with scans.  *)

TaskCollab ==
    [tools |-> {"task_complete", "bogus"},
     subTools |-> {}, requests |-> Unbounded, invocations |-> Unbounded,
     calls |-> MaxCalls, malformed |-> FALSE, pages |-> {DocPage(2)},
     answers |-> {}]

ScanCollab ==
    [tools |-> {"task_complete", "scan_profile_deep"},
     subTools |-> {"complete_scan", "scroll"}, requests |-> Unbounded,
     invocations |-> Unbounded, calls |-> MaxCalls, malformed |-> FALSE,
     pages |-> {DocPage(2)}, answers |-> {}]

TerminationInit ==
    /\ browserReady = TRUE
    /\ page = DocPage(2)
    /\ elementMap = <<>>
    /\ retryCount = <<>>
    /\ lastCall = NoCall
    /\ failStreak = <<>>
    /\ snapRefs = {}
    /\ prevSnapRefs = {}
    /\ snapBy = NoSnap
    /\ agent = "constructed"
    /\ pc = "loop"
    /\ tasks = 1
    /\ taskComplete = FALSE
    /\ taskResult = Null
    /\ messages = <<Entry("system", <<>>, "content"), Entry("user", <<>>, "content")>>
    /\ calls = NoCalls
    /\ lastTool = NoTool
    /\ taskReturn = Null
    /\ completions = 0
    /\ proc = "running"
    /\ asked = 0
    /\ invoked = 0
    /\ subPc = "idle"
    /\ subIteration = 0
    /\ scanComplete = FALSE
    /\ scanResult = Null
    /\ subMessages = <<>>
    /\ subCalls = NoCalls
    /\ scanUrl = <<>>
    /\ \/ iteration = 0 /\ collab = TaskCollab
       \/ iteration = MAX_ITERATIONS - 1 /\ collab = ScanCollab

TerminationNext ==
    \/ RunTaskIterate
    \/ ExecuteStep
    \/ ExecuteTool
    \/ RunTaskReturn
    \/ SubIterate
    \/ SubStep
    \/ SubTool
    \/ SubReturn

\* where the two loops stand; every step moves it
position == <<pc, subPc, calls, subCalls>>

SpecTermination ==
    TerminationInit /\ [][TerminationNext]_vars /\ WF_position(TerminationNext)

----------------------------------------------------------------------------
(* Properties of the controller and the compressor *)

TerminalTexts ==
    {"Navigation failed after retries", "Click failed after retries",
     "Type failed after retries"}

NotFoundTexts ==
    {"Element not found. Call get_page_context() first to refresh elements.",
     "Element not found. Call get_page_context() first."}

\* the last call got past resolution and reported failure
LastCallFailed == lastCall.engaged /\ ~lastCall.result.success

\* C1: the 3rd consecutive failing call of an action key returns the
\* retries-exhausted failure and leaves no counter for the key; a 4th failing
\* call is again an ordinary failure of a fresh cycle, with the counter at 1.
C1_ThirdFailureIsTerminal ==
    /\ (LastCallFailed /\ MapGet(failStreak, lastCall.key) = 3) =>
          /\ lastCall.result.error.text \in TerminalTexts
          /\ lastCall.key \notin DOMAIN retryCount
    /\ (LastCallFailed /\ MapGet(failStreak, lastCall.key) = 4) =>
          /\ lastCall.result.error.text \notin TerminalTexts
          /\ MapGet(retryCount, lastCall.key) = 1

\* the last call was click or typeText with a ref that the snapshot before the
\* latest one returned and the latest one did not
StaleRefCall ==
    /\ lastCall.op \in {"click", "typeText"}
    /\ ~lastCall.raised
    /\ lastCall.arg \in prevSnapRefs \ snapRefs

\* C6: click or typeText with a ref of snapshot N that snapshot N+1 did not
\* return fails with the not-found message and attempts no browser action.
C6_StaleRefRejected ==
    StaleRefCall =>
        /\ lastCall.result.success = FALSE
        /\ lastCall.result.error.text \in NotFoundTexts
        /\ lastCall.attempts = <<>>
        /\ lastCall.target = <<>>

C6_Witness ==
    /\ StaleRefCall
    /\ lastCall.op = "click"
    /\ lastCall.result.success = FALSE
    /\ \E p \in SmallPages : Live(getSelector(Doc(2)[3]), p)

\* the last call was a successful snapshot
SnapshotReturned ==
    /\ lastCall.op = "getPageContext"
    /\ ~lastCall.raised
    /\ lastCall.result.success

SnapshotElements == lastCall.result.data.elements
SnapshotRaw == RawElements(DomOf(lastCall.result.data.url))

Triple(el) == <<el.type, el.text, el.href>>

\* C7: a snapshot has at most 150 elements, no two with the same
\* (type, text, href), and each is the first enumerated node of its triple.
C7_BoundedDeduplicated ==
    SnapshotReturned =>
        LET els == SnapshotElements
            raw == SnapshotRaw
            triples == [i \in 1..Len(raw) |-> Triple(raw[i])]
        IN /\ Len(els) <= MAX_ELEMENTS
           /\ \A i, j \in 1..Len(els) : i < j => Triple(els[i]) # Triple(els[j])
           /\ \A i \in 1..Len(els) :
                \E k \in 1..Len(raw) :
                    /\ triples[k] = Triple(els[i])
                    /\ raw[k].selector = els[i].selector
                    /\ \A h \in 1..(k - 1) : triples[h] # triples[k]

C7_Witness ==
    /\ SnapshotReturned
    /\ Len(SnapshotElements) = MAX_ELEMENTS
    /\ LET raw == SnapshotRaw
           triples == [i \in 1..Len(raw) |-> Triple(raw[i])]
       IN /\ Len(raw) > MAX_ELEMENTS + 1
          /\ \E i, j \in 1..MAX_ELEMENTS : i < j /\ triples[i] = triples[j]

\* C8: the refs of a snapshot are pairwise distinct, and the element map built
\* from it has one entry per returned element.
C8_RefsDistinct ==
    SnapshotReturned =>
        LET els == SnapshotElements IN
        /\ \A i, j \in 1..Len(els) : i < j => els[i].ref # els[j].ref
        /\ Cardinality(DOMAIN elementMap) = Len(els)

C8_Witness ==
    /\ SnapshotReturned
    /\ LET els == SnapshotElements IN
       /\ \E i \in 1..Len(els) :
             els[i].type = "input" /\ els[i].ref = Ref("input", 12)
       /\ \E j \in 1..Len(els) :
             els[j].type = "textarea" /\ els[j].ref = Ref("textarea", 12)
       /\ \E k \in 1..Len(els) : els[k].type = "select"

----------------------------------------------------------------------------
(* Properties of the task loop and the scan loop *)

Returned == taskReturn # Null

\* a step of the task loop that starts an iteration
IterationStarts == pc = "loop" /\ pc' = "step"

\* C2: a task in which task_complete is never executed runs exactly 500
\* iterations, the counter rising by one per iteration whatever happened in
\* the one before, and then runTask returns success=false with no candidates.
C2_BudgetExhausted ==
    /\ [](Returned /\ completions = 0 =>
            /\ taskReturn.iterations = MAX_ITERATIONS
            /\ taskReturn.value.success = FALSE
            /\ taskReturn.value.candidates = <<>>)
    /\ [][(iteration' # iteration /\ pc # "prompt") =>
            IterationStarts /\ iteration' = iteration + 1]_vars
    /\ [][IterationStarts => iteration' = iteration + 1]_vars

C2_Witness ==
    /\ Returned
    /\ completions = 0
    /\ taskReturn.iterations = MAX_ITERATIONS
    /\ messages = <<Entry("user", <<>>, "System error occurred")>>

\* C3: runTask returns before the 500th iteration, or returns success=true,
\* only when a task_complete invocation was executed in the task.
C3_OnlyTaskCompleteEnds ==
    (Returned /\ (taskReturn.iterations < MAX_ITERATIONS
                    \/ taskReturn.value.success = TRUE))
        => completions > 0

C3_Witness ==
    /\ Returned
    /\ taskReturn.value.success = TRUE
    /\ taskReturn.iterations = 3
    /\ completions = 1
    /\ lastTool.name = "task_complete"
    /\ lastCall.op = "scroll"

\* the proposals of a conversation window that carry invocations
Proposals(msgs) ==
    {i \in 1..Len(msgs) : msgs[i].role = "assistant" /\ Len(msgs[i].ids) > 0}

\* every proposal is followed by one result entry per invocation, with the
\* invocation's id, in order, and by nothing else
Answered(msgs) ==
    \A i \in Proposals(msgs) :
        LET ids == msgs[i].ids IN
        /\ Len(msgs) = i + Len(ids)
        /\ \A j \in 1..Len(ids) :
              /\ msgs[i + j].role = "tool"
              /\ msgs[i + j].ids = <<ids[j]>>

\* C4: when either loop is about to request the next proposal, the entries
\* appended since the previous request are the proposal and exactly one
\* result entry per invocation, with its id, in invocation order.
C4_ResultsFollowProposal ==
    /\ pc = "loop" => Answered(messages)
    /\ (pc = "scan" /\ subPc = "loop") => Answered(subMessages)

C4_Witness ==
    /\ pc = "loop"
    /\ Len(messages) = 3
    /\ Len(messages[1].ids) = 2
    /\ messages[2].ids = <<messages[1].ids[1]>>
    /\ messages[3].ids = <<messages[1].ids[2]>>
    /\ lastTool.name = "bogus"

\* the answer is "yes" in any letter case, with whitespace around it at most
IsYes(a) ==
    \E i \in 0..Len(a) :
        /\ Len(a) >= i + 3
        /\ \A x \in 1..i : a[x] \in Whitespace
        /\ a[i + 1] \in {"y", "Y"}
        /\ a[i + 2] \in {"e", "E"}
        /\ a[i + 3] \in {"s", "S"}
        /\ \A x \in (i + 4)..Len(a) : a[x] \in Whitespace

\* the step appends the primary loop's result entry of the named tool
PrimaryExecutes(names) ==
    /\ pc = "tools"
    /\ calls'.k = calls.k + 1
    /\ lastTool'.name \in names

BrowserUntouched ==
    UNCHANGED <<browserReady, page, elementMap, retryCount, lastCall, failStreak>>

\* C5: the result of request_confirmation carries confirmed:true exactly when
\* the human's answer, trimmed and lower-cased, is "yes", confirmed:false
\* otherwise, and handling it runs no browser operation.
C5_ConfirmationNeedsYes ==
    /\ [](lastTool.name = "request_confirmation" =>
            /\ lastTool.content.confirmed \in BOOLEAN
            /\ lastTool.content.confirmed = IsYes(lastTool.input)
            /\ lastTool.ops = <<>>)
    /\ [][PrimaryExecutes({"request_confirmation"}) => BrowserUntouched]_vars

C5_Witness ==
    /\ lastTool.name = "request_confirmation"
    /\ lastTool.input = <<" ", "Y", "e", "s", "\t">>
    /\ lastTool.content.confirmed = TRUE
    /\ lastCall.op = "scroll"

\* C9: every tool-result entry is an object with a boolean success field,
\* and with an error field when success is false.
C9_UniformEnvelope ==
    lastTool.loop # "none" =>
        /\ "success" \in DOMAIN lastTool.content
        /\ lastTool.content.success \in BOOLEAN
        /\ lastTool.content.success = FALSE => "error" \in DOMAIN lastTool.content

Surface(loop) == IF loop = "sub" THEN SubAgentTools ELSE PrimaryTools

\* the step appends the sub-agent's result entry of the named tool
SubExecutes(names) ==
    /\ pc = "scan"
    /\ subPc = "tools"
    /\ subCalls'.k = subCalls.k + 1
    /\ lastTool'.name \in names

\* C10: an invocation of a name outside the loop's tool surface gets a result
\* entry that reports the error; the browser, the element map and the retry
\* counters stay as they are, and the loop proceeds to the next invocation
\* of the proposal or to the loop head.
C10_UnknownToolIsLocal ==
    /\ []((lastTool.loop # "none" /\ lastTool.name \notin Surface(lastTool.loop)) =>
            /\ "error" \in DOMAIN lastTool.content
            /\ lastTool.ops = <<>>)
    /\ [][PrimaryExecutes(collab.tools \ PrimaryTools) =>
            /\ BrowserUntouched
            /\ UNCHANGED <<taskComplete, taskResult, iteration>>
            /\ pc' = IF calls'.k < calls.n THEN "tools" ELSE "loop"]_vars
    /\ [][SubExecutes(collab.subTools \ SubAgentTools) =>
            /\ BrowserUntouched
            /\ UNCHANGED <<scanComplete, scanResult, subIteration, pc>>
            /\ subPc' = IF subCalls'.k < subCalls.n THEN "tools" ELSE "loop"]_vars

C10_Witness ==
    /\ lastTool.name = "bogus"
    /\ lastTool.loop = "primary"
    /\ retryCount # <<>>
    /\ lastCall.op = "navigate"
    /\ pc = "loop"
    /\ calls = [n |-> 2, k |-> 2]

\* the step appends the primary loop's result entry of an invocation whose
\* argument string did not parse
PrimaryExecutesUnparsed ==
    /\ pc = "tools"
    /\ calls'.k = calls.k + 1
    /\ ~lastTool'.parsed

SubExecutesUnparsed ==
    /\ pc = "scan"
    /\ subPc = "tools"
    /\ subCalls'.k = subCalls.k + 1
    /\ ~lastTool'.parsed

\* C11: an invocation whose argument string does not parse is executed with
\* every argument absent; whatever the tool, exactly one result entry with the
\* invocation's id is appended and the loop it belongs to is not ended.
C11_UnparsedKeepsLoopAlive ==
    /\ [][PrimaryExecutesUnparsed =>
            /\ messages' = Append(messages, Entry("tool", <<lastTool'.id>>, "result"))
            /\ lastTool'.id = CurrentCall(messages, calls)
            /\ taskComplete' = taskComplete
            /\ pc' \in {"tools", "loop"}]_vars
    /\ [][SubExecutesUnparsed =>
            /\ subMessages' =
                 Append(subMessages, Entry("tool", <<lastTool'.id>>, "result"))
            /\ lastTool'.id = CurrentCall(subMessages, subCalls)
            /\ scanComplete' = scanComplete
            /\ subPc' \in {"tools", "loop"}]_vars

Diagnostic == Entry("user", <<>>, "System error occurred")

\* what a request to the model may leave in the conversation window: the
\* model's message, or the diagnostic message of a failed call
RequestAnswered(before, after, next) ==
    \/ /\ Len(after) = Len(before) + 1
       /\ SubSeq(after, 1, Len(before)) = before
       /\ after[Len(after)].role = "assistant"
    \/ after = Append(before, Diagnostic) /\ next = "loop"

\* C12: a request to the model, failed or not, leaves either loop alive: the
\* model's message or one diagnostic user message is appended, the loop goes
\* on to the invocations or to its next iteration, and nothing of the task
\* or scan is ended.
C12_InferenceFailureContinues ==
    /\ [][pc = "step" =>
            /\ pc' \in {"tools", "loop"}
            /\ RequestAnswered(messages, messages', pc')
            /\ UNCHANGED <<iteration, taskComplete, taskResult, taskReturn>>]_vars
    /\ [][(pc = "scan" /\ subPc = "step") =>
            /\ subPc' \in {"tools", "loop"}
            /\ subMessages' = subMessages
                 \/ RequestAnswered(subMessages, subMessages', subPc')
            /\ UNCHANGED <<subIteration, scanComplete, scanResult, pc>>]_vars

----------------------------------------------------------------------------
(* Properties of the controller's failure handling *)

\* C13: no controller operation raises to its caller, whether or not
\* initialize() completed: each returns an envelope, and a failure is an
\* envelope with success=false and an error.
C13_NeverRaises ==
    lastCall.op # "none" =>
        /\ ~lastCall.raised
        /\ "success" \in DOMAIN lastCall.result
        /\ lastCall.result.success = FALSE => "error" \in DOMAIN lastCall.result

AllTypeStrategies == <<"type", "fill", "pressSequentially">>

\* the last call was typeText on a resolved ref and reported failure
TypeTextFailed ==
    /\ lastCall.op = "typeText"
    /\ ~lastCall.raised
    /\ lastCall.engaged
    /\ ~lastCall.result.success

\* C14: when typeText fails after the keystroke, the bulk-fill and the
\* sequential-key-press strategy, the one failure returned carries the error
\* of the sequential key press, the strategy that failed last.
C14_LastErrorReported ==
    (TypeTextFailed /\ lastCall.attempts = AllTypeStrategies) =>
        /\ lastCall.result.error.text = "All type methods failed. Last error"
        /\ lastCall.result.error.cause = "pressSequentially"

\* the step is a typeText call on a resolved ref that reports failure
TypeTextFails ==
    /\ retryCount' # retryCount
    /\ lastCall'.op = "typeText"
    /\ ~lastCall'.raised
    /\ lastCall'.engaged
    /\ ~lastCall'.result.success

C16_CounterFollowsStreak ==
    /\ DOMAIN retryCount \subseteq DOMAIN failStreak
    /\ \A k \in DOMAIN failStreak :
          MapGet(retryCount, k) = failStreak[k] % RETRY_CEILING
    /\ \A k \in DOMAIN retryCount : retryCount[k] \in 1..(RETRY_CEILING - 1)

\* C17: after a successful snapshot the element map holds exactly one entry
\* per returned element, its ref mapped to its selector, and nothing else:
\* no entry of an earlier snapshot survives unless the new one produced it.
C17_MapReplaced ==
    SnapshotReturned =>
        LET els == SnapshotElements IN
        /\ DOMAIN elementMap = RefsOf(els)
        /\ \A i \in 1..Len(els) : elementMap[els[i].ref] = els[i].selector
        /\ \A r \in prevSnapRefs \ snapRefs : r \notin DOMAIN elementMap

C17_Witness ==
    /\ SnapshotReturned
    /\ lastCall.result.data.url = DocPage(3)
    /\ prevSnapRefs \ snapRefs # {}
    /\ Ref("link", 1) \in prevSnapRefs \cap snapRefs
    /\ elementMap[Ref("link", 1)] = <<"a", "9">>

----------------------------------------------------------------------------
(* Properties of the results of a task and of a scan *)

\* C18: within one task the result is produced once: at most one
\* task_complete invocation is executed, and a result that has been stored
\* is not stored again or replaced before runTask returns it.
C18_ResultProducedOnce ==
    /\ [](completions <= 1)
    /\ [][(pc # "prompt" /\ taskResult # Null) => taskResult' = taskResult]_vars

\* C19: a scan result carries the profile URL that scanProfile was given.
C19_ResultCarriesProfileUrl ==
    (scanResult # Null /\ scanUrl # <<>>) => scanResult.profileUrl = scanUrl

\* the scan returns to the tool that started it
ScanReturns == pc = "scan" /\ pc' # "scan"

\* C20: a scan whose model never invokes complete_scan runs 15 iterations
\* and then returns the result of the direct extraction; a result built
\* from the model's arguments is returned only after complete_scan.
C20_FallbackAfterFullBudget ==
    [][ScanReturns =>
         IF scanComplete
         THEN scanResult' = scanResult /\ scanResult # Null
         ELSE /\ subIteration = SUB_AGENT_MAX_ITERATIONS
              /\ scanResult = Null
              /\ scanResult' # Null
              /\ scanResult'.tldrSummary = "Profile scanned (fallback)"]_vars

----------------------------------------------------------------------------
(* Properties of the two loops taken together *)

\* the fields of the primary loop
PrimaryState ==
    <<messages, calls, iteration, taskComplete, taskResult, taskReturn, completions>>

\* C21: the two loops never interleave: while a scan runs the primary loop
\* requests no decision, executes no tool and appends nothing to its
\* conversation; the scan ends only when its loop has ended, and only then
\* is the single result of scan_profile_deep appended.
C21_LoopsNeverInterleave ==
    [][pc = "scan" =>
         IF pc' = "scan"
         THEN /\ UNCHANGED PrimaryState
              /\ lastTool'.loop \in {"sub", lastTool.loop}
         ELSE /\ \/ subPc = "done"
                 \/ subPc = "loop" /\ (scanComplete \/ subIteration >= SUB_AGENT_MAX_ITERATIONS)
              /\ messages' = Append(messages,
                                    Entry("tool", <<CurrentCall(messages, calls)>>, "result"))
              /\ lastTool'.name = "scan_profile_deep"
              /\ lastTool'.loop = "primary"
              /\ calls'.k = calls.k + 1
              /\ pc' \in {"tools", "loop"}]_vars

C21_Witness ==
    /\ pc = "loop"
    /\ lastTool.name = "scan_profile_deep"
    /\ scanComplete
    /\ subIteration = 1
    /\ Len(subMessages) = 2
    /\ Len(messages) = 2
    /\ messages[2].ids = messages[1].ids

----------------------------------------------------------------------------
(* Properties of the process: start-up and shutdown *)

\* the browser failed to launch when the agent was initialized
LaunchFailed == agent = "constructed" /\ ~browserReady

\* C22: a failed browser launch is fatal: after it no further task is
\* accepted.
C22_LaunchFailureIsFatal ==
    [][LaunchFailed => (tasks' = tasks /\ pc' = pc)]_vars

----------------------------------------------------------------------------
(* Properties of single controller operations *)

HTTP == <<"http://">>
HTTPS == <<"https://">>

\* a navigate call that got past getPage with a url
NavigateRequested == lastCall.op = "navigate" /\ ~lastCall.raised /\ lastCall.arg # Undefined

\* C24: navigate requests the url unchanged when it starts with "http://"
\* or "https://", and "https://" + url otherwise; navigate("example.com")
\* requests "https://example.com".
C24_SchemeDefaulted ==
    NavigateRequested =>
        /\ lastCall.target = IF StartsWith(lastCall.arg, HTTP) \/ StartsWith(lastCall.arg, HTTPS)
                             THEN lastCall.arg
                             ELSE HTTPS \o lastCall.arg
        /\ lastCall.arg = <<"example.com">> => lastCall.target = <<"https://", "example.com">>
        /\ lastCall.attempts = <<"goto">>

C24_Witness ==
    /\ NavigateRequested
    /\ lastCall.arg = <<"example.com">>
    /\ lastCall.target = <<"https://", "example.com">>
    /\ lastCall.result.success
    /\ lastCall.result.data.url = <<"https://", "example.com">>

\* the error texts of click that contain "Click failed"
ClickFailedTexts ==
    {"Click failed. Try scrolling or refreshing page context.",
     "Click failed after retries"}

\* a click on a resolved ref none of whose attempts succeeds
ClickFails ==
    /\ retryCount' # retryCount
    /\ lastCall'.op = "click"
    /\ lastCall'.engaged
    /\ lastCall'.attempts # <<>>
    /\ ~(~lastCall'.raised /\ lastCall'.result.success)

\* C25: a click on a resolved ref whose standard click and forced click
\* fail returns success=false with an error text containing "Click failed",
\* whatever the retry counter of the key was: below the ceiling after both
\* attempts, at the ceiling after the standard click alone.
C25_ClickFailedReported ==
    [][ClickFails =>
         /\ ~lastCall'.raised
         /\ ~lastCall'.result.success
         /\ lastCall'.result.error.text \in ClickFailedTexts
         /\ lastCall'.result.error.cause = "click"
         /\ lastCall'.result.error.text = "Click failed after retries"
                <=> MapGet(retryCount, lastCall'.key) >= RETRY_CEILING]_vars

C25_Witness ==
    /\ lastCall.op = "click"
    /\ lastCall.engaged
    /\ ~lastCall.result.success
    /\ lastCall.result.error.text = "Click failed after retries"
    /\ lastCall.attempts = <<"click">>
    /\ MapGet(failStreak, lastCall.key) = RETRY_CEILING + 1
    /\ lastCall.key \notin DOMAIN retryCount

----------------------------------------------------------------------------
(* Properties of the order of decisions and invocations *)

\* the invocation just executed in the current proposal asked for confirmation
ConfirmationJustAnswered ==
    /\ pc = "tools"
    /\ calls.k > 0
    /\ lastTool.loop = "primary"
    /\ lastTool.name = "request_confirmation"

\* C26: after request_confirmation no later invocation of the same proposal
\* is executed: the next invocation waits for a new decision of the model.
C26_ConfirmationEndsProposal ==
    [][ConfirmationJustAnswered => (calls'.k = calls.k /\ pc' # "scan")]_vars

\* the terminal invocation of the primary loop has been executed
TaskTerminated == taskComplete /\ pc \in {"tools", "loop", "step"}

\* the terminal invocation of the scan has been executed
ScanTerminated == scanComplete /\ pc = "scan"

\* C27: once the terminal invocation of a loop has been executed, that loop
\* executes no further invocation and requests no further decision.
C27_TerminalEndsLoop ==
    /\ [][TaskTerminated => (calls' = calls /\ pc' \notin {"step", "scan"})]_vars
    /\ [][ScanTerminated => (subCalls' = subCalls /\ subPc' # "step")]_vars

\* a navigate call whose load fails
NavigateFails ==
    /\ retryCount' # retryCount
    /\ lastCall'.op = "navigate"
    /\ ~lastCall'.raised
    /\ lastCall'.arg # Undefined
    /\ ~lastCall'.result.success

\* C28: navigate follows the common retry shape: a failed load under the
\* ceiling increments the counter and is followed by a further load attempt
\* within the same call; at the ceiling the counter is cleared and the
\* terminal failure is returned.
C28_NavigateRetriesInCall ==
    [][NavigateFails =>
         LET key == lastCall'.key IN
         IF MapGet(retryCount, key) < RETRY_CEILING
         THEN /\ MapGet(retryCount', key) = MapGet(retryCount, key) + 1
              /\ Len(lastCall'.attempts) >= 2
         ELSE /\ key \notin DOMAIN retryCount'
              /\ lastCall'.result.error.text = "Navigation failed after retries"]_vars

----------------------------------------------------------------------------
(* Properties of refs and retry counters across snapshots *)

\* a click or typeText call with a ref that the element map does not hold
AbsentRefCall ==
    /\ lastCall' # lastCall
    /\ lastCall'.op \in {"click", "typeText"}
    /\ lastCall'.arg \notin DOMAIN elementMap

\* what failing fast means: the not-found failure, no browser action, the
\* retry state, the element map and the document as they were
FailsFast ==
    /\ ~lastCall'.raised
    /\ lastCall'.result.success = FALSE
    /\ lastCall'.result.error.text \in NotFoundTexts
    /\ lastCall'.attempts = <<>>
    /\ ~lastCall'.engaged
    /\ UNCHANGED <<retryCount, elementMap, page, failStreak>>

KeyAction(op) == IF op = "typeText" THEN "type" ELSE op

\* a click or typeText call on a resolved ref that reports failure
RefActionFails ==
    /\ retryCount' # retryCount
    /\ lastCall'.op \in {"click", "typeText"}
    /\ lastCall'.engaged
    /\ ~lastCall'.result.success

\* C30: retry counters are keyed by action name and ref only and are
\* untouched by getPageContext: only navigate, click and typeText change
\* them; a failure of click:R or type:R adds to the count the key already
\* has, whatever snapshot or page the earlier failures were recorded under;
\* and a key leaves the counters only by a success or a terminal failure of
\* a call with that key.
C30_CountersOutliveSnapshots ==
    /\ [][retryCount' # retryCount =>
            lastCall'.op \in {"navigate", "click", "typeText"}]_vars
    /\ [][RefActionFails =>
            LET key == lastCall'.key IN
            /\ key = <<KeyAction(lastCall'.op), ":">> \o lastCall'.arg
            /\ IF MapGet(retryCount, key) < RETRY_CEILING
               THEN MapGet(retryCount', key) = MapGet(retryCount, key) + 1
               ELSE key \notin DOMAIN retryCount']_vars
    /\ [][\A k \in DOMAIN retryCount \ DOMAIN retryCount' :
            /\ lastCall'.key = k
            /\ \/ lastCall'.result.success
               \/ lastCall'.result.error.text \in TerminalTexts]_vars

C30_Witness ==
    /\ lastCall.op = "getPageContext"
    /\ ~lastCall.raised
    /\ lastCall.result.success
    /\ prevSnapRefs # {}
    /\ snapRefs # prevSnapRefs
    /\ Ref("input", 1) \in snapRefs \cap prevSnapRefs
    /\ MapGet(retryCount, getRetryKey("click", Ref("input", 1))) = 2

\* the signal was handled while a task was running
InterruptedTask == proc = "closing" /\ pc # "prompt"

\* C23: the shutdown path closes the browser session and then ends the
\* process, and from the moment the signal is handled the interrupted task
\* returns no result and the agent loop issues no further browser action.
C23_NothingAfterInterrupt ==
    /\ [][proc' = "exited" => (proc = "closing" \/ agent = "null")]_vars
    /\ [][InterruptedTask => (taskReturn' = taskReturn /\ lastCall' = lastCall)]_vars

----------------------------------------------------------------------------
(* Properties of the refs and the passes of the compressor *)

\* the prefix of each category
PrefixOf(type) ==
    CASE type = "link" -> "link"
      [] type = "button" -> "btn"
      [] type = "input" -> "input"
      [] type = "textarea" -> "textarea"
      [] type = "select" -> "select"

\* the position of element i among the elements of its type
RankInType(els, i) == Cardinality({j \in 1..i : els[j].type = els[i].type})

\* C31: in every snapshot the returned elements carry, per category and in
\* list order, the refs prefix_1, prefix_2, ... without gaps, counted over
\* the list that deduplication and truncation left, from 1 in each snapshot.
C31_RefsNumberedPerCategory ==
    SnapshotReturned =>
        LET els == SnapshotElements IN
        \A i \in 1..Len(els) :
            els[i].ref = <<PrefixOf(els[i].type), "_">> \o Decimal(RankInType(els, i))

C31_Witness ==
    /\ SnapshotReturned
    /\ lastCall.result.data.url = DocPage(2)
    /\ Ref("textarea", 31) \in prevSnapRefs
    /\ LET els == SnapshotElements IN
       /\ Len(els) = 8
       /\ els[1].ref = Ref("link", 1)
       /\ els[2].ref = Ref("link", 2)
       /\ els[2].text = <<"N", "e", "x", "t">>
       /\ els[8].ref = Ref("select", 1)

\* the passes of the compressor that enumerate node el
PassesOf(el) ==
    {p \in {"links", "buttons", "inputs", "selects"} :
        \/ p = "links" /\ KeepLink(el)
        \/ p = "buttons" /\ MatchesButton(el) /\ isVisible(el)
        \/ p = "inputs" /\ MatchesInput(el) /\ isVisible(el)
        \/ p = "selects" /\ MatchesSelect(el) /\ isVisible(el)}

\* C32: the four passes are disjoint: no node of the document is enumerated
\* by two passes, and no node yields two elements with different refs.
C32_PassesDisjoint ==
    SnapshotReturned =>
        LET dom == DomOf(lastCall.result.data.url)
            els == SnapshotElements
        IN /\ \A i \in 1..Len(dom) : Cardinality(PassesOf(dom[i])) <= 1
           /\ \A i, j \in 1..Len(els) :
                els[i].selector = els[j].selector => els[i].ref = els[j].ref

----------------------------------------------------------------------------
(* Properties of the sub-agent's surface and of the element map *)

\* the controller operations open to the sub-agent
ReducedSurface == {"getPageContext", "click", "scroll"} \cup ExtractOps

\* C33: during a scan, after the initial navigation, the sub-agent invokes
\* only getPageContext, click, scroll and the read-only extractions; a tool
\* name outside its surface reaches no controller operation.
C33_ReducedSurface ==
    /\ [][(pc = "scan" /\ subCalls'.k = subCalls.k + 1) =>
            /\ lastTool'.loop = "sub"
            /\ \A i \in 1..Len(lastTool'.ops) : lastTool'.ops[i] \in ReducedSurface
            /\ lastTool'.name \notin SubAgentTools =>
                  /\ lastTool'.ops = <<>>
                  /\ UNCHANGED ctlVars]_vars
    /\ [][pc = "scan" =>
            \/ lastCall'.op \in ReducedSurface
            \/ UNCHANGED ctlVars]_vars

C33_Witness ==
    /\ pc = "scan"
    /\ lastTool.loop = "sub"
    /\ lastTool.name = "navigate"
    /\ lastTool.ops = <<>>
    /\ lastCall.op = "navigate"
    /\ lastCall.arg = scanUrl

\* C34: the element map changes only through a successful getPageContext,
\* which replaces it by the map of the elements it returns; every other
\* operation, and a getPageContext that fails, leaves it as it was.
C34_MapChangesOnlyBySnapshot ==
    [][elementMap' # elementMap =>
         /\ lastCall'.op = "getPageContext"
         /\ ~lastCall'.raised
         /\ lastCall'.result.success
         /\ elementMap' = BuildElementMap(lastCall'.result.data.elements)]_vars

C34_Witness ==
    /\ lastCall.op = "getPageContext"
    /\ ~lastCall.raised
    /\ ~lastCall.result.success
    /\ snapRefs # {}
    /\ DOMAIN elementMap = snapRefs
    /\ \E r \in snapRefs : ~Live(elementMap[r], page)

----------------------------------------------------------------------------
(* Properties of the snapshot a primary ref is resolved against *)

\* a click or type_text of the primary loop whose ref was found in the map
PrimaryRefResolved ==
    /\ pc = "tools"
    /\ calls'.k = calls.k + 1
    /\ lastTool'.loop = "primary"
    /\ lastTool'.name \in {"click", "type_text"}
    /\ lastTool'.parsed
    /\ lastCall' # lastCall
    /\ lastCall'.op \in {"click", "typeText"}
    /\ lastCall'.arg \in DOMAIN elementMap

\* C35: a click or type_text of the primary loop gets past the resolution of
\* its ref only against the latest successful snapshot that the primary loop
\* took in the current task, never against one taken by the sub-agent or in
\* an earlier task.
C35_PrimaryRefsFromOwnSnapshot ==
    [][PrimaryRefResolved =>
         snapBy = [loop |-> "primary", task |-> tasks]]_vars

----------------------------------------------------------------------------
(* Properties of the entry of runTask *)

\* runTask has been entered and has not returned
InRunTask == pc \in {"loop", "step", "tools", "scan"}

\* C36: runTask runs only on a coordinator whose browser initialize()
\* completed: while the task loop is running the browser has been launched.
C36_RunTaskOnlyWhenInitialized == InRunTask => browserReady

----------------------------------------------------------------------------
(* Termination of the two loops *)

\* runTask has returned a TaskResult
TaskReturned ==
    /\ pc = "prompt"
    /\ taskReturn # Null
    /\ taskReturn.value.success \in BOOLEAN

\* scanProfile has returned a ProfileScanResult to the tool that called it
ScanReturned ==
    /\ pc # "scan"
    /\ scanResult # Null
    /\ lastTool.name = "scan_profile_deep"

\* C37: when every model call, browser operation and prompt returns, every
\* runTask call eventually returns a TaskResult and every scanProfile call
\* eventually returns a ProfileScanResult, whatever the model does.
C37_LoopsTerminate ==
    /\ InRunTask ~> TaskReturned
    /\ (pc = "scan") ~> ScanReturned

\* a task that ran out of iterations has returned, its last scan having used
\* its whole budget without complete_scan
C37_Witness ==
    /\ TaskReturned
    /\ taskReturn.iterations = MAX_ITERATIONS
    /\ ~taskReturn.value.success
    /\ subIteration = SUB_AGENT_MAX_ITERATIONS
    /\ ~scanComplete
    /\ scanResult # Null

----------------------------------------------------------------------------
(* Properties of the deduplication *)

\* C38: deduplication drops an element only when an earlier element has the
\* same (type, text, href) triple: short of the limit, every triple that the
\* passes collected is found among the returned elements.
C38_DropsOnlyEqualTriples ==
    SnapshotReturned =>
        LET raw == RawElements(DomOf(lastCall.result.data.url))
            els == SnapshotElements
        IN Len(els) < MAX_ELEMENTS =>
               \A i \in 1..Len(raw) :
                   \E k \in 1..Len(els) : Triple(els[k]) = Triple(raw[i])

----------------------------------------------------------------------------
(* Properties of the retry counter of navigate *)

\* the urls that navigate turns into the same requested url as `target`
SameRequest(target) == {u \in UrlArgs : NormalizeUrl(u) = target}

\* C39: navigate calls whose urls normalise to the same requested url share
\* one retry counter: a navigation that succeeded leaves no failure counted
\* for any url with that requested url.
C39_NavigateCounterShared ==
    (lastCall.op = "navigate" /\ ~lastCall.raised /\ lastCall.result.success) =>
        \A u \in SameRequest(lastCall.target) :
            MapGet(retryCount, getRetryKey("navigate", u)) = 0

====
